---- MODULE Spec2Model ----
(***************************************************************************)
(* A model of machine-setup's credential lifecycle: the GitHub upload of   *)
(* SSH and GPG keys (machine_setup/secrets.py), the key registry and the   *)
(* `keys list` / `keys prune` commands (machine_setup/keys.py).            *)
(*                                                                         *)
(* Texts (command output, key titles) are sequences of tokens; a substring *)
(* test is a test for a contiguous subsequence of tokens.                  *)
(***************************************************************************)
EXTENDS Integers, Sequences, FiniteSets, TLC

VARIABLES
    \* ---- one call of add_ssh_key_to_github / add_gpg_key_to_github
    ufn,        \* "none" | "ssh" | "gpg": the function called
    upc,        \* position in the function
    ulog,       \* the commands run so far, in order, with their results
    uret,       \* "none" | "True" | "False": the value returned
    utmp,       \* the temporary file holding the exported GPG key exists
    \* ---- the registry file (keys.json) and its directory
    regFile,    \* [dir, exists, mode, data]
    \* ---- one KeyRegistry instance and the operations on it
    rstate,     \* "none" | "live" | "raised": not constructed, usable, died of an exception
    rkeys,      \* the instance's _keys
    rlast,      \* the last operation on the instance and what it did
    reopened,   \* a second KeyRegistry constructed on the same path, or NotOpened
    rother,     \* a KeyRegistry held by another process on the same path
    \* ---- the machine, the GitHub account and the commands run on them
    clock,      \* the time, in ticks (DayLen ticks a day)
    sshPriv,    \* ~/.ssh/id_ed25519: 0 (absent) or the key it holds
    sshPub,     \* ~/.ssh/id_ed25519.pub: 0 (absent) or the key it holds
    gpgRing,    \* the GPG keyring, oldest key first: [fpr, name, key]
    ghSsh,      \* the account's SSH keys: [id, title, createdAt, key]
    ghGpg,      \* the account's GPG keys: [id, name, createdAt, keyId, key]
    nextKey,    \* the next key ssh-keygen or gpg generates
    nextId,     \* the id GitHub gives the next key added
    cpc,        \* "idle", or the position of the setup command that runs
    crun,       \* the running command's locals and what it has done
    clast,      \* the last command that ended, and what it did
    \* ---- config.py: the module's lists and the calls made on SetupConfig
    cfgModule,  \* the module-level lists, by name
    cfgCalls,   \* the calls made so far, in order: [fn, preset, result]
    \* ---- main.py: one invocation of `machine-setup run`
    mpc,        \* "idle" | "running" | "done"
    mopts,      \* the options of the invocation
    mpos,       \* the place in run_setup's step order of the step to run next
    mlog,       \* the steps called so far, in order: [step, returned]
    mcomplete,  \* "=== Setup complete ===" was logged
    mexit,      \* "none" | "0" | "1" | "raised": how the process ended
    \* ---- windows.py: one-time taskbar pinning
    taskbarSentinels,  \* the Windows users whose sentinel file exists
    taskbarLog,        \* the calls of pin_taskbar_apps_once so far, in order
    \* ---- the setup steps taken one function at a time
    host,       \* what the function under study finds and leaves on the machine
    trace       \* the calls made so far, in order: arguments, commands, outcome

uploadVars == <<ufn, upc, ulog, uret, utmp>>
instVars == <<rstate, rkeys, rlast, reopened, rother>>
worldVars ==
    <<clock, sshPriv, sshPub, gpgRing, ghSsh, ghGpg, nextKey, nextId, cpc, crun, clast>>

cfgVars == <<cfgModule, cfgCalls>>
mainVars == <<mpc, mopts, mpos, mlog, mcomplete, mexit>>
taskbarVars == <<taskbarSentinels, taskbarLog>>
hostVars == <<host, trace>>
appVars == <<cfgVars, mainVars, taskbarVars, hostVars>>

vars == <<uploadVars, regFile, instVars, worldVars, appVars>>

\* what each part of the model leaves alone
notUpload == <<regFile, instVars, worldVars, appVars>>
notRegistry == <<uploadVars, worldVars, appVars>>
notWorld == <<uploadVars, instVars, appVars>>
notApp == <<uploadVars, regFile, instVars, worldVars>>

(***************************************************************************)
(* The machine and the GitHub account.                                     *)
(***************************************************************************)
NoRun == [cmd |-> "none"]

\* nothing on the machine or the account, no command run
WorldIdle ==
    /\ clock = 0
    /\ sshPriv = 0
    /\ sshPub = 0
    /\ gpgRing = <<>>
    /\ ghSsh = <<>>
    /\ ghGpg = <<>>
    /\ nextKey = 1
    /\ nextId = 1
    /\ cpc = "idle"
    /\ crun = NoRun
    /\ clast = NoRun

(***************************************************************************)
(* config.py: presets and package tiers.                                   *)
(***************************************************************************)
Presets == {"minimal", "dev", "full"}

PACKAGES_MINIMAL ==
    << "bat", "btop", "ca-certificates", "coreutils", "curl", "fzf", "gh",
       "git", "jq", "locales", "man", "ripgrep", "stow", "sudo", "tmux",
       "vim", "wget", "zsh" >>

PACKAGES_DEV ==
    << "at", "ccache", "clang", "clang-format", "cloc", "cmake", "cron",
       "dnsutils", "entr", "g++", "gcc", "gdb", "git-delta", "golang",
       "hyperfine", "lua5.4", "luarocks", "make", "net-tools", "nodejs",
       "npm", "openssl", "parallel", "podman", "python-is-python3", "python3",
       "ipython3", "rlwrap", "rsync", "rustc", "shellcheck", "shfmt", "socat",
       "sqlite3", "ssh", "stress", "traceroute", "w3m", "whois" >>

PACKAGES_FULL ==
    << "ffmpeg", "imagemagick", "img2pdf", "latexmk",
       "libimage-exiftool-perl", "msmtp", "msmtp-mta", "ncal", "optipng",
       "pandoc", "poppler-utils", "qpdf", "rename", "tex-common", "texlive",
       "tree", "xclip", "zathura" >>

UV_TOOLS_MINIMAL ==
    <<>>

UV_TOOLS_DEV ==
    << "ast-grep-cli", "files-to-prompt", "llm", "lmterminal", "lmtoolbox",
       "ruff", "toc-markdown", "ty", "vocabmaster", "wslshot" >>

UV_TOOLS_FULL ==
    <<>>

NPM_TOOLS_MINIMAL ==
    <<>>

NPM_TOOLS_DEV ==
    << "@ccusage/codex", "@openai/codex", "n", "opencode-ai" >>

NPM_TOOLS_FULL ==
    <<>>

STOW_PACKAGES ==
    [minimal |-> << "shell", "git" >>,
     dev |-> << "shell", "git", "vim", "tmux", "config", "ai-tools", "misc" >>,
     full |-> << "shell", "git", "vim", "tmux", "config", "ai-tools", "misc", "gui" >>]

\* the module's lists as the import leaves them
ModuleLists ==
    [PACKAGES_MINIMAL |-> PACKAGES_MINIMAL, PACKAGES_DEV |-> PACKAGES_DEV,
     PACKAGES_FULL |-> PACKAGES_FULL, UV_TOOLS_MINIMAL |-> UV_TOOLS_MINIMAL,
     UV_TOOLS_DEV |-> UV_TOOLS_DEV, UV_TOOLS_FULL |-> UV_TOOLS_FULL,
     NPM_TOOLS_MINIMAL |-> NPM_TOOLS_MINIMAL, NPM_TOOLS_DEV |-> NPM_TOOLS_DEV,
     NPM_TOOLS_FULL |-> NPM_TOOLS_FULL, STOW_PACKAGES |-> STOW_PACKAGES]

CfgIdle ==
    /\ cfgModule = ModuleLists
    /\ cfgCalls = <<>>

\* `machine-setup run` has not been invoked
NoOptions == [preset |-> "none"]

MainIdle ==
    /\ mpc = "idle"
    /\ mopts = NoOptions
    /\ mpos = 0
    /\ mlog = <<>>
    /\ mcomplete = FALSE
    /\ mexit = "none"

\* no sentinel written, pin_taskbar_apps_once never called
TaskbarIdle ==
    /\ taskbarSentinels = {}
    /\ taskbarLog = <<>>

\* no setup step has been called
HostIdle ==
    /\ host = [step |-> "none"]
    /\ trace = <<>>

\* what a setup step leaves alone
notHost == <<cfgVars, mainVars, taskbarVars, notApp>>

\* no part of the program outside the credential lifecycle has run
AppIdle ==
    /\ CfgIdle
    /\ MainIdle
    /\ TaskbarIdle
    /\ HostIdle

(***************************************************************************)
(* Text.                                                                   *)
(***************************************************************************)

\* str.lower() on one token of the vocabulary used here.
LowerTok(t) ==
    CASE t = "HTTP" -> "http"
      [] t = "Status" -> "status"
      [] t = "Already" -> "already"
      [] t = "ALREADY" -> "already"
      [] OTHER -> t

\* str.lower()
Lower(s) == [i \in 1..Len(s) |-> LowerTok(s[i])]

\* `p in s` for strings
Contains(s, p) ==
    \E i \in 0..(Len(s) - Len(p)) : SubSeq(s, i + 1, i + Len(p)) = p

\* the three markers the upload functions look for
ALREADY == <<"already">>
HTTP_404 == <<"http", " ", "404">>
STATUS_404 == <<"status", " ", "404">>

(***************************************************************************)
(* The results `gh ssh-key add` / `gh gpg-key add` may give: an exit       *)
(* status, stdout and stderr.                                              *)
(***************************************************************************)
Stdouts == { <<>>, <<"Already">> }

Stderrs ==
    { <<>>,
      <<"HTTP", " ", "404">>,
      <<"status", " ", "404">>,
      <<"key", " ", "is", " ", "ALREADY", " ", "in", " ", "use">>,
      <<"HTTP", " ", "404", ":", " ", "already">>,
      <<"HTTP", " ", "422">> }

UploadResults == [returncode : {0, 1}, stdout : Stdouts, stderr : Stderrs]

\* f"{result.stdout}{result.stderr}".lower()
DuplicateHint(result) == Lower(result.stdout \o result.stderr)

\* "already" in duplicate_hint
IsDuplicate(result) == Contains(DuplicateHint(result), ALREADY)

\* "http 404" in duplicate_hint or "status 404" in duplicate_hint
IsMissingScope(result) ==
    \/ Contains(DuplicateHint(result), HTTP_404)
    \/ Contains(DuplicateHint(result), STATUS_404)

\* what the function does after its first upload command
AfterFirstUpload(result) ==
    IF result.returncode # 0
    THEN IF IsDuplicate(result) THEN "return_true"
         ELSE IF IsMissingScope(result) THEN "refresh"
         ELSE "return_false"
    ELSE "return_true"

\* a slip: the upload is repeated whether or not the refresh succeeded
AfterRefresh_IgnoringFailure(returncode) == "retry"

\* what the function does after _refresh_gh_scopes
AfterRefresh(returncode) ==
    IF ~(returncode = 0) THEN "return_false" ELSE "retry"

\* a slip: the repeated upload's failure is not checked for a duplicate
AfterRetry_NoDuplicateCheck(result) ==
    IF result.returncode # 0 THEN "return_false" ELSE "return_true"

\* what the function does after the repeated upload command
AfterRetry(result) ==
    IF result.returncode # 0
    THEN IF IsDuplicate(result) THEN "return_true" ELSE "return_false"
    ELSE "return_true"

\* the OAuth scope each function asks for
Scopes(fn) == IF fn = "ssh" THEN "admin:public_key" ELSE "admin:gpg_key"

(***************************************************************************)
(* add_ssh_key_to_github / add_gpg_key_to_github, one step per check or    *)
(* command.                                                                *)
(***************************************************************************)
UploadInit ==
    /\ ufn = "none"
    /\ upc = "idle"
    /\ ulog = <<>>
    /\ uret = "none"
    /\ utmp = FALSE

\* `return v`; add_gpg_key_to_github's finally clause unlinks the temp file
UReturn(v) ==
    /\ upc' = "done"
    /\ uret' = v
    /\ utmp' = FALSE

UGoto(pc) ==
    /\ upc' = pc
    /\ UNCHANGED <<uret, utmp>>

UAfter(where) ==
    CASE where = "return_true" -> UReturn("True")
      [] where = "return_false" -> UReturn("False")
      [] OTHER -> UGoto(where)

\* the function is called
UCall(fn) ==
    /\ upc = "idle"
    /\ ufn' = fn
    /\ upc' = "check_gh"
    /\ UNCHANGED <<ulog, uret, utmp, notUpload>>

\* command_exists("gh")
UCheckGh(exists) ==
    /\ upc = "check_gh"
    /\ IF exists THEN UGoto("check_input") ELSE UReturn("False")
    /\ UNCHANGED <<ufn, ulog, notUpload>>

\* ssh: public_key_path.exists(); gpg: command_exists("gpg")
UCheckInput(exists) ==
    /\ upc = "check_input"
    /\ IF exists THEN UGoto("auth_status") ELSE UReturn("False")
    /\ UNCHANGED <<ufn, ulog, notUpload>>

\* what follows a successful _ensure_gh_authenticated
AfterAuth(fn) == IF fn = "ssh" THEN "upload" ELSE "export"

\* a slip: the result of gh auth login is not looked at
AfterLogin_IgnoringFailure(fn, returncode) == AfterAuth(fn)

\* what the function does after gh auth login: `return False` from
\* _ensure_gh_authenticated ends the caller with False
AfterLogin(fn, returncode) ==
    IF returncode # 0 THEN "return_false" ELSE AfterAuth(fn)

\* _ensure_gh_authenticated: gh auth status
UAuthStatus(returncode) ==
    /\ upc = "auth_status"
    /\ ulog' = Append(ulog, [cmd |-> "auth_status", returncode |-> returncode])
    /\ IF returncode # 0 THEN UGoto("auth_login") ELSE UGoto(AfterAuth(ufn))
    /\ UNCHANGED <<ufn, notUpload>>

\* _ensure_gh_authenticated: gh auth login --scopes <scopes>
UAuthLogin(returncode) ==
    /\ upc = "auth_login"
    /\ ulog' = Append(ulog, [cmd |-> "auth_login", returncode |-> returncode,
                             scopes |-> Scopes(ufn)])
    /\ UAfter(AfterLogin(ufn, returncode))
    /\ UNCHANGED <<ufn, notUpload>>

\* gpg --armor --export <fingerprint>, then the key written to a temp file
UExport(returncode, empty) ==
    /\ upc = "export"
    /\ ulog' = Append(ulog, [cmd |-> "export", returncode |-> returncode])
    /\ IF returncode # 0 \/ empty
       THEN UReturn("False")
       ELSE /\ upc' = "upload"
            /\ utmp' = TRUE
            /\ UNCHANGED uret
    /\ UNCHANGED <<ufn, notUpload>>

\* gh ssh-key add / gh gpg-key add, the first time
UUpload(result) ==
    /\ upc = "upload"
    /\ ulog' = Append(ulog, [cmd |-> "upload", returncode |-> result.returncode,
                             result |-> result])
    /\ UAfter(AfterFirstUpload(result))
    /\ UNCHANGED <<ufn, notUpload>>

\* _refresh_gh_scopes: gh auth refresh --scopes <scopes>
URefresh(returncode) ==
    /\ upc = "refresh"
    /\ ulog' = Append(ulog, [cmd |-> "refresh", returncode |-> returncode,
                             scopes |-> Scopes(ufn)])
    /\ UAfter(AfterRefresh(returncode))
    /\ UNCHANGED <<ufn, notUpload>>

\* gh ssh-key add / gh gpg-key add, repeated
URetry(result) ==
    /\ upc = "retry"
    /\ ulog' = Append(ulog, [cmd |-> "upload", returncode |-> result.returncode,
                             result |-> result])
    /\ UAfter(AfterRetry(result))
    /\ UNCHANGED <<ufn, notUpload>>

UploadNext ==
    \/ \E fn \in {"ssh", "gpg"} : UCall(fn)
    \/ \E e \in BOOLEAN : UCheckGh(e)
    \/ \E e \in BOOLEAN : UCheckInput(e)
    \/ \E rc \in {0, 1} : UAuthStatus(rc)
    \/ \E rc \in {0, 1} : UAuthLogin(rc)
    \/ \E rc \in {0, 1}, empty \in BOOLEAN : UExport(rc, empty)
    \/ \E r \in UploadResults : UUpload(r)
    \/ \E rc \in {0, 1} : URefresh(rc)
    \/ \E r \in UploadResults : URetry(r)


(***************************************************************************)
(* The key registry: KeyRecord, its JSON form, the file, _load and _save.  *)
(***************************************************************************)

\* Python's None and an optional string: <<>> is None, <<s>> is the string s
None == <<>>
Some(s) == <<s>>

KeyRecord(key_type, fingerprint, title, created_at, github_key_id) ==
    [key_type |-> key_type, fingerprint |-> fingerprint, title |-> title,
     created_at |-> created_at, github_key_id |-> github_key_id]

\* JSON values: null, and a string
JNull == <<"null">>
JStr(s) == <<"str", s>>

RequiredFields == {"key_type", "fingerprint", "title", "created_at"}
KnownFields == RequiredFields \cup {"github_key_id"}

\* asdict(k) as json.dumps writes it: every field, None as null
ToJson(k) ==
    [f \in KnownFields |->
        IF f = "github_key_id"
        THEN IF k.github_key_id = None THEN JNull ELSE JStr(k.github_key_id[1])
        ELSE JStr(k[f])]

\* a JSON value as json.loads reads it
FromJsonValue(v) == IF v = JNull THEN None ELSE v[2]

\* KeyRecord(**k) raises TypeError on a missing or an unknown field
RecordTypeError(obj) ==
    ~(RequiredFields \subseteq DOMAIN obj /\ DOMAIN obj \subseteq KnownFields)

\* a slip: github_key_id is not read back
FromJson_DroppingKeyId(obj) ==
    KeyRecord(FromJsonValue(obj.key_type), FromJsonValue(obj.fingerprint),
              FromJsonValue(obj.title), FromJsonValue(obj.created_at), None)

\* KeyRecord(**k) for a well-formed k; github_key_id defaults to None
FromJson(obj) ==
    KeyRecord(FromJsonValue(obj.key_type), FromJsonValue(obj.fingerprint),
              FromJsonValue(obj.title), FromJsonValue(obj.created_at),
              IF "github_key_id" \in DOMAIN obj
              THEN (IF obj.github_key_id = JNull THEN None
                    ELSE Some(FromJsonValue(obj.github_key_id)))
              ELSE None)

\* the file's text, by its shape as JSON
NotJson == [shape |-> "not_json", keys |-> <<>>]           \* json.loads fails
TopLevelArray == [shape |-> "array", keys |-> <<>>]        \* valid, no object
ObjectWithoutKeys == [shape |-> "object_no_keys", keys |-> <<>>]
ObjectKeysNull == [shape |-> "object_keys_null", keys |-> <<>>]
Document(objs) == [shape |-> "object", keys |-> objs]      \* {"keys": [...]}
NoData == [shape |-> "none", keys |-> <<>>]

\* no registry file; its directory may exist
NoFile(dir) == [dir |-> dir, exists |-> FALSE, mode |-> 0, data |-> NoData]

\* 0o600
REGISTRY_MODE == 384

\* the mode's owner-write bit (0o200)
OwnerWritable(mode) == (mode \div 128) % 2 = 1

\* KeyRegistry._load: the keys read, or the exception that escapes
Load(file) ==
    IF ~file.exists THEN [raised |-> "", keys |-> <<>>]
    ELSE CASE file.data.shape = "not_json" -> [raised |-> "", keys |-> <<>>]
           [] file.data.shape = "array" ->
                 [raised |-> "AttributeError", keys |-> <<>>]
           [] file.data.shape = "object_no_keys" -> [raised |-> "", keys |-> <<>>]
           [] file.data.shape = "object_keys_null" -> [raised |-> "", keys |-> <<>>]
           [] OTHER ->
                 LET objs == file.data.keys IN
                 IF \E i \in DOMAIN objs : RecordTypeError(objs[i])
                 THEN [raised |-> "", keys |-> <<>>]
                 ELSE [raised |-> "",
                       keys |-> [i \in DOMAIN objs |-> FromJson(objs[i])]]

\* a slip: the mode is left as it is
Chmod_Skipped(file, mode) == file

\* Path.chmod
Chmod(file, mode) == [file EXCEPT !.mode = mode]

\* Path.write_text can open the file: it is absent, writable, or we are root
CanWrite(file, root) == ~file.exists \/ OwnerWritable(file.mode) \/ root

\* a slip: the records already in the file are kept in front of those written
WriteText_Appending(file, data, createMode) ==
    [dir |-> file.dir, exists |-> TRUE,
     mode |-> IF file.exists THEN file.mode ELSE createMode,
     data |-> IF file.exists /\ file.data.shape = "object"
              THEN Document(file.data.keys \o data.keys)
              ELSE data]

\* Path.write_text: the file created with the umask's mode if absent, its
\* content replaced
WriteText(file, data, createMode) ==
    [dir |-> file.dir, exists |-> TRUE,
     mode |-> IF file.exists THEN file.mode ELSE createMode,
     data |-> data]

\* KeyRegistry._save when write_text succeeds
Save(file, keys, createMode) ==
    LET made == [file EXCEPT !.dir = TRUE]
        data == Document([i \in DOMAIN keys |-> ToJson(keys[i])])
    IN  Chmod(WriteText(made, data, createMode), REGISTRY_MODE)

\* KeyRegistry._save when write_text raises PermissionError: only the mkdir
SaveFailed(file) == [file EXCEPT !.dir = TRUE]

\* a slip: only the first record with the fingerprint is dropped
RECURSIVE WithoutFingerprint_First(_, _)
WithoutFingerprint_First(keys, fingerprint) ==
    IF keys = <<>> THEN <<>>
    ELSE IF Head(keys).fingerprint = fingerprint THEN Tail(keys)
    ELSE <<Head(keys)>> \o WithoutFingerprint_First(Tail(keys), fingerprint)

\* [k for k in keys if k.fingerprint != fingerprint]
RECURSIVE WithoutFingerprint(_, _)
WithoutFingerprint(keys, fingerprint) ==
    IF keys = <<>> THEN <<>>
    ELSE LET rest == WithoutFingerprint(Tail(keys), fingerprint) IN
         IF Head(keys).fingerprint # fingerprint THEN <<Head(keys)>> \o rest
         ELSE rest

\* [k for k in keys if k.title != title]
RECURSIVE WithoutTitle(_, _)
WithoutTitle(keys, title) ==
    IF keys = <<>> THEN <<>>
    ELSE LET rest == WithoutTitle(Tail(keys), title) IN
         IF Head(keys).title # title THEN <<Head(keys)>> \o rest ELSE rest

(***************************************************************************)
(* Titles and the values the registry's operations are tried on.           *)
(***************************************************************************)
KEY_PREFIX == <<"machine", "-", "setup", "-">>
Hostname == "host"

\* f"machine-setup-{hostname}-{date_str}"
KeyName(hostname, date_str) == KEY_PREFIX \o <<hostname, "-", date_str>>

MaxKeys == 3

RecordPool ==
    { KeyRecord("ssh", <<"SHA256", "1">>, KeyName(Hostname, "0"), <<"iso", 0>>, None),
      KeyRecord("ssh", <<"SHA256", "1">>, KeyName(Hostname, "1"), <<"iso", 2>>, None),
      KeyRecord("gpg", <<"FPR", "2">>, KeyName(Hostname, "0"), <<"iso", 0>>, Some("12345")) }

PoolFingerprints == {r.fingerprint : r \in RecordPool} \cup {<<"SHA256", "9">>}
PoolTitles == {r.title : r \in RecordPool} \cup {<<"laptop">>}

\* the modes a file is created with: 0o666 less the umask 0o022, 0o002, 0o077
CreateModes == {420, 436, 384}

\* the modes the file may be given from outside: 0o600, 0o644, 0o400, 0o666
OutsideModes == {384, 420, 256, 438}

\* a record as an older or foreign writer may have left it
LegacyObject ==
    [f \in RequiredFields |->
        JStr(KeyRecord("ssh", <<"SHA256", "1">>, KeyName(Hostname, "0"), <<"iso", 0>>, None)[f])]
BrokenObject == [f \in {"key_type", "title"} |-> JStr("ssh")]

InitialData ==
    { Document(<<>>), Document(<<LegacyObject>>), Document(<<BrokenObject>>),
      NotJson, TopLevelArray, ObjectWithoutKeys, ObjectKeysNull }

InitialFiles ==
    {NoFile(FALSE), NoFile(TRUE)} \cup
    { [dir |-> TRUE, exists |-> TRUE, mode |-> m, data |-> d] :
        m \in {384, 420}, d \in InitialData }

NotOpened == [state |-> "none", keys |-> <<>>]

InstInit ==
    /\ rstate = "none"
    /\ rkeys = <<>>
    /\ rlast = [op |-> "none", ret |-> "none", wrote |-> FALSE, modeBefore |-> 0]
    /\ reopened = NotOpened
    /\ rother = NotOpened

(***************************************************************************)
(* One KeyRegistry instance: construction, add, remove, remove_by_title.   *)
(***************************************************************************)

\* KeyRegistry(path)
RNew ==
    /\ rstate = "none"
    /\ LET l == Load(regFile) IN
         /\ rstate' = IF l.raised = "" THEN "live" ELSE "raised"
         /\ rkeys' = l.keys
         /\ rlast' = [op |-> "new", ret |-> l.raised, wrote |-> FALSE,
                     modeBefore |-> regFile.mode]
    /\ UNCHANGED <<regFile, reopened, rother, notRegistry>>

\* the end of an operation that calls _save: it returns ret, or write_text
\* raises and the exception ends the command that holds the instance
RSaving(op, arg, keys, ret, createMode, root) ==
    /\ rkeys' = keys
    /\ IF CanWrite([regFile EXCEPT !.dir = TRUE], root)
       THEN /\ regFile' = Save(regFile, keys, createMode)
            /\ rstate' = "live"
            /\ rlast' = [op |-> op, ret |-> ret, wrote |-> TRUE,
                         modeBefore |-> regFile.mode, arg |-> arg,
                         keysBefore |-> rkeys, fileBefore |-> regFile]
       ELSE /\ regFile' = SaveFailed(regFile)
            /\ rstate' = "raised"
            /\ rlast' = [op |-> op, ret |-> "PermissionError", wrote |-> FALSE,
                         modeBefore |-> regFile.mode, arg |-> arg,
                         keysBefore |-> rkeys, fileBefore |-> regFile]
    /\ reopened' = NotOpened
    /\ UNCHANGED rother

\* KeyRegistry.add
RAdd(record, createMode, root) ==
    /\ rstate = "live"
    /\ Len(rkeys) < MaxKeys
    /\ RSaving("add", record, Append(rkeys, record), "None", createMode, root)
    /\ UNCHANGED notRegistry

\* the end of remove / remove_by_title: save and True if the list got shorter
RRemoving(op, arg, keys, createMode, root) ==
    IF Len(keys) < Len(rkeys)
    THEN RSaving(op, arg, keys, "True", createMode, root)
    ELSE /\ rkeys' = keys
         /\ rlast' = [op |-> op, ret |-> "False", wrote |-> FALSE,
                      modeBefore |-> regFile.mode, arg |-> arg,
                      keysBefore |-> rkeys, fileBefore |-> regFile]
         /\ reopened' = NotOpened
         /\ UNCHANGED <<regFile, rstate, rother>>

\* KeyRegistry.remove
RRemove(fingerprint, createMode, root) ==
    /\ rstate = "live"
    /\ RRemoving("remove", fingerprint, WithoutFingerprint(rkeys, fingerprint),
                 createMode, root)
    /\ UNCHANGED notRegistry

\* KeyRegistry.remove_by_title
RRemoveByTitle(title, createMode, root) ==
    /\ rstate = "live"
    /\ RRemoving("remove_by_title", title, WithoutTitle(rkeys, title),
                 createMode, root)
    /\ UNCHANGED notRegistry

\* a new KeyRegistry on the same path, and its get_all()
RReopen ==
    /\ rstate = "live"
    /\ LET l == Load(regFile) IN
         reopened' = [state |-> IF l.raised = "" THEN "live" ELSE "raised",
                      keys |-> l.keys]
    /\ UNCHANGED <<regFile, rstate, rkeys, rlast, rother, notRegistry>>

\* the file's mode changed from outside, between two operations
EnvChmod(mode) ==
    /\ rstate = "live"
    /\ regFile.exists
    /\ regFile.mode # mode
    /\ regFile' = [regFile EXCEPT !.mode = mode]
    /\ rlast' = [op |-> "env", ret |-> "none", wrote |-> FALSE,
                 modeBefore |-> regFile.mode]
    /\ reopened' = NotOpened
    /\ UNCHANGED <<rstate, rkeys, rother, notRegistry>>

RegistryNext ==
    \/ RNew
    \/ \E r \in RecordPool, m \in CreateModes, root \in BOOLEAN : RAdd(r, m, root)
    \/ \E f \in PoolFingerprints, m \in CreateModes, root \in BOOLEAN :
          RRemove(f, m, root)
    \/ \E t \in PoolTitles, m \in CreateModes, root \in BOOLEAN :
          RRemoveByTitle(t, m, root)
    \/ RReopen
    \/ \E m \in OutsideModes : EnvChmod(m)

InitRegistry ==
    /\ AppIdle
    /\ UploadInit
    /\ regFile \in InitialFiles
    /\ InstInit
    /\ WorldIdle

SpecRegistry == InitRegistry /\ [][RegistryNext]_vars

(***************************************************************************)
(* Properties of the registry.                                             *)
(***************************************************************************)

\* C9: whatever add, remove and remove_by_title operations one instance has
\* performed, a new KeyRegistry constructed on the same path is constructed
\* without an exception and its get_all() equals the first instance's: the
\* same records in the same order with the same field values.
C9_RegistryRoundTrips ==
    reopened.state # "none" =>
        reopened.state = "live" /\ reopened.keys = rkeys

\* reopened after a removal that left two records, one with a github_key_id
C9_Witness ==
    /\ reopened.state = "live"
    /\ rlast.op = "remove_by_title" /\ rlast.ret = "True"
    /\ Len(rkeys) = 2
    /\ \E i \in DOMAIN rkeys : rkeys[i].github_key_id # None

\* C10: on return from an operation that wrote the file (add, or a remove /
\* remove_by_title that removed a record) the file exists with permission
\* bits exactly 0600 (= 384), whatever they were before.
C10_OwnerOnlyAfterWrite ==
    rlast.wrote => regFile.exists /\ regFile.mode = 384

\* a removal rewrote a file whose mode was 0644 before
C10_Witness ==
    /\ rlast.wrote
    /\ rlast.op \in {"remove", "remove_by_title"}
    /\ rlast.modeBefore = 420

(***************************************************************************)
(* A second process holding its own KeyRegistry on the same path.          *)
(***************************************************************************)

OtherOps == {"other.add", "other.remove"}

\* the records either process's instance may come to hold
MaxWriterKeys == 2

\* KeyRegistry(path) in the other process
OtherNew ==
    /\ rother.state = "none"
    /\ LET l == Load(regFile) IN
         rother' = [state |-> IF l.raised = "" THEN "live" ELSE "raised",
                    keys |-> l.keys]
    /\ UNCHANGED <<regFile, rstate, rkeys, rlast, reopened, notRegistry>>

\* the end of an operation of the other process's instance that leaves it
\* with `keys`, calling _save when `save`
OtherSaving(op, arg, keys, save, createMode, root) ==
    LET done == [op |-> op, ret |-> "None", wrote |-> TRUE,
                 modeBefore |-> regFile.mode, arg |-> arg,
                 keysBefore |-> rother.keys, fileBefore |-> regFile]
    IN  /\ IF ~save
           THEN /\ rother' = [rother EXCEPT !.keys = keys]
                /\ rlast' = [done EXCEPT !.ret = "False", !.wrote = FALSE]
                /\ UNCHANGED regFile
           ELSE IF CanWrite([regFile EXCEPT !.dir = TRUE], root)
           THEN /\ rother' = [rother EXCEPT !.keys = keys]
                /\ regFile' = Save(regFile, keys, createMode)
                /\ rlast' = done
           ELSE /\ rother' = [state |-> "raised", keys |-> keys]
                /\ regFile' = SaveFailed(regFile)
                /\ rlast' = [done EXCEPT !.ret = "PermissionError", !.wrote = FALSE]
        /\ reopened' = NotOpened
        /\ UNCHANGED <<rstate, rkeys, notRegistry>>

\* KeyRegistry.add in the other process (setup_ssh, setup_gpg)
OtherAdd(record, createMode, root) ==
    /\ rother.state = "live"
    /\ Len(rother.keys) < MaxWriterKeys
    /\ OtherSaving("other.add", record, Append(rother.keys, record), TRUE,
                   createMode, root)

\* KeyRegistry.remove in the other process (prune_keys)
OtherRemove(fingerprint, createMode, root) ==
    /\ rother.state = "live"
    /\ LET keys == WithoutFingerprint(rother.keys, fingerprint)
       IN  OtherSaving("other.remove", fingerprint, keys,
                       Len(keys) < Len(rother.keys), createMode, root)

\* the first process's operations, both processes running as the same user
\* with umask 022
FirstAdd(record) ==
    /\ Len(rkeys) < MaxWriterKeys
    /\ RAdd(record, 420, FALSE)

FirstRemove(fingerprint) ==
    /\ rkeys # <<>>
    /\ RRemove(fingerprint, 420, FALSE)

TwoWritersNext ==
    \/ RNew
    \/ OtherNew
    \/ \E r \in RecordPool : FirstAdd(r)
    \/ \E f \in PoolFingerprints : FirstRemove(f)
    \/ \E r \in RecordPool : OtherAdd(r, 420, FALSE)
    \/ \E f \in PoolFingerprints : OtherRemove(f, 420, FALSE)

InitTwoWriters ==
    /\ AppIdle
    /\ UploadInit
    /\ regFile \in {NoFile(FALSE), NoFile(TRUE)}
    /\ InstInit
    /\ WorldIdle

SpecTwoWriters == InitTwoWriters /\ [][TwoWritersNext]_vars

\* C17: right after an instance has saved, the file holds exactly the
\* records of that instance, whatever the other instance holds or had saved
\* before.
C17_LastSaveWins ==
    rlast.wrote =>
        Load(regFile).keys = IF rlast.op \in OtherOps THEN rother.keys ELSE rkeys

\* the first instance had saved a record; the other instance, constructed
\* before that, saved its own: the first instance's record is not in the file
C17_Witness ==
    /\ rlast.wrote
    /\ rlast.op = "other.add"
    /\ rstate = "live"
    /\ rkeys # <<>>
    /\ Load(rlast.fileBefore).keys = rkeys
    /\ Load(regFile).keys = <<rlast.arg>>

\* C19: a KeyRegistry is constructed without an exception whatever the file
\* holds, with no records when the file is missing or is not a registry
\* document, and the construction leaves the file as it was.
C19_ConstructionNeverFails ==
    rlast.op = "new" =>
        /\ rstate = "live"
        /\ (~regFile.exists \/ regFile.data.shape # "object") => rkeys = <<>>

\* the field the operation matches its argument against
MatchedField(record) ==
    IF rlast.op = "remove" THEN record.fingerprint ELSE record.title

\* the places in the list before the operation of the records it matches
Matched == {i \in DOMAIN rlast.keysBefore :
               MatchedField(rlast.keysBefore[i]) = rlast.arg}

\* the place before the operation of the n-th record left: the n-th place
\* that is not matched
RECURSIVE PlaceBefore(_, _)
PlaceBefore(n, from) ==
    IF from \notin Matched
    THEN IF n = 1 THEN from ELSE PlaceBefore(n - 1, from + 1)
    ELSE PlaceBefore(n, from + 1)

\* C20: when remove(f) or remove_by_title(t) has returned, the list holds the
\* records it held before less every record with that fingerprint or title,
\* in their order; it returned True iff a record was removed, and when it
\* returned False the file's content, existence and mode are as before.
C20_RemoveExactlyMatching ==
    (rlast.op \in {"remove", "remove_by_title"} /\ rlast.ret \in {"True", "False"}) =>
        /\ Len(rkeys) = Len(rlast.keysBefore) - Cardinality(Matched)
        /\ \A n \in DOMAIN rkeys : rkeys[n] = rlast.keysBefore[PlaceBefore(n, 1)]
        /\ rlast.ret = "True" <=> Matched # {}
        /\ rlast.ret = "False" =>
              (rkeys = rlast.keysBefore /\ regFile = rlast.fileBefore)

\* a removal took the first and the last of three records and left the one
\* between them
C20_Witness ==
    /\ rlast.op \in {"remove", "remove_by_title"}
    /\ rlast.ret = "True"
    /\ Len(rlast.keysBefore) = 3
    /\ Matched = {1, 3}
    /\ rkeys = <<rlast.keysBefore[2]>>



(***************************************************************************)
(* Keys, dates and what GitHub lists.                                      *)
(***************************************************************************)
DayLen == 2
MaxClock == 2
MaxFreshKeys == 2
MaxRing == 1
MaxRecords == 2

\* datetime.now().strftime("%Y%m%d")
DateStr(now) == ToString(now \div DayLen)

\* generate_key_name()
GenerateKeyName(now) == KeyName(Hostname, DateStr(now))

\* datetime.now().isoformat(), and the createdAt GitHub gives a new key
IsoFormat(now) == <<"iso", now>>

\* the second field of `ssh-keygen -l`: "SHA256:..."
SshFingerprint(key) == <<"SHA256", ToString(key)>>

\* field 9 of gpg's first fpr: line for a key
GpgFingerprint(key) == <<"FPR", ToString(key)>>

\* the results of `gh ssh-key add` / `gh gpg-key add` the commands are run
\* against: added, duplicate, missing scope, another failure
WorldUploadResults ==
    { [returncode |-> 0, stdout |-> <<>>, stderr |-> <<>>],
      [returncode |-> 1, stdout |-> <<>>,
       stderr |-> <<"key", " ", "is", " ", "ALREADY", " ", "in", " ", "use">>],
      [returncode |-> 1, stdout |-> <<>>, stderr |-> <<"HTTP", " ", "404">>],
      [returncode |-> 1, stdout |-> <<>>, stderr |-> <<"HTTP", " ", "422">>] }

\* add_ssh_key_to_github / add_gpg_key_to_github from the first upload on:
\* the value returned and whether an upload command succeeded
AddKeyOutcome(first, refreshCode, second) ==
    LET a == AfterFirstUpload(first) IN
    CASE a = "return_true" -> [ret |-> TRUE, added |-> first.returncode = 0]
      [] a = "return_false" -> [ret |-> FALSE, added |-> FALSE]
      [] OTHER ->
           IF AfterRefresh(refreshCode) = "return_false"
           THEN [ret |-> FALSE, added |-> FALSE]
           ELSE [ret |-> AfterRetry(second) = "return_true",
                 added |-> second.returncode = 0]

\* what the commands an upload runs may answer; an answer never asked for is
\* set to the one before
UploadAttempts ==
    { a \in [first : WorldUploadResults, refreshCode : {0, 1},
             second : WorldUploadResults] :
        \/ IsMissingScope(a.first) /\ a.refreshCode = 0
        \/ IsMissingScope(a.first) /\ a.second = a.first
        \/ a.refreshCode = 0 /\ a.second = a.first }

\* the keys an account holds
KeysOf(rows) == {rows[i].key : i \in DOMAIN rows}

\* what GitHub may answer to the upload of `key`: a key the account holds is
\* never added again
MayAnswer(rows, key, result) == result.returncode = 0 => key \notin KeysOf(rows)

\* keys the account held before the tool was first run: one the user named,
\* one of another machine with no date listed, one titled like the pattern
\* further in, one of another machine made a day before the clock starts
ForeignSsh ==
    << [id |-> 101, title |-> <<"laptop">>, createdAt |-> <<"iso", 0>>, key |-> 91],
       [id |-> 102, title |-> KeyName("other", "0"), createdAt |-> <<>>, key |-> 92],
       [id |-> 103, title |-> <<"old", "-">> \o KeyName("other", "0"),
        createdAt |-> <<"iso", 0>>, key |-> 93],
       [id |-> 104, title |-> KeyName("other", "1"),
        createdAt |-> <<"iso", 0 - DayLen>>, key |-> 96] >>

ForeignGpg ==
    << [id |-> 201, name |-> KeyName("other", "0"), createdAt |-> <<"not-a-date">>,
        keyId |-> None, key |-> 94],
       [id |-> 202, name |-> <<"Machine", "-", "setup", "-", "x">>,
        createdAt |-> <<"iso", 0>>, keyId |-> Some(GpgFingerprint(95)), key |-> 95] >>

(***************************************************************************)
(* keys.py: listing, filtering, ages.                                      *)
(***************************************************************************)
GitHubKey(key_id, title, key_type, created_at, fingerprint) ==
    [key_id |-> key_id, title |-> title, key_type |-> key_type,
     created_at |-> created_at, fingerprint |-> fingerprint]

\* list_github_ssh_keys: the keys of a listing that parsed
SshKeysListed(rows) ==
    [i \in DOMAIN rows |->
        GitHubKey(ToString(rows[i].id), rows[i].title, "ssh", rows[i].createdAt, None)]

\* list_github_gpg_keys: the keys of a listing that parsed
GpgKeysListed(rows) ==
    [i \in DOMAIN rows |->
        GitHubKey(ToString(rows[i].id), rows[i].name, "gpg", rows[i].createdAt,
                  rows[i].keyId)]

\* how a listing command may end: "ok", a non-zero exit, output that does not
\* parse (JSONDecodeError, KeyError)
ListOutcomes == {"ok", "nonzero", "unparseable"}

\* KeyListResult.success / KeyListResult.failure
KeyListResult(outcome, keys) ==
    IF outcome = "ok" THEN [keys |-> keys, error |-> None]
    ELSE [keys |-> <<>>, error |-> Some(outcome)]

\* KeyListResult.is_error
IsError(result) == result.error # None

\* a slip: only the SSH listing's error stops the command
ListingErrors_SshOnly(ssh_result, gpg_result) ==
    (IF IsError(ssh_result) THEN <<"SSH">> ELSE <<>>)

\* list_keys / prune_keys: errors
ListingErrors(ssh_result, gpg_result) ==
    (IF IsError(ssh_result) THEN <<"SSH">> ELSE <<>>)
        \o (IF IsError(gpg_result) THEN <<"GPG">> ELSE <<>>)

KEY_PATTERN == <<"machine", "-", "setup", "-">>

StartsWith(s, p) == Len(s) >= Len(p) /\ SubSeq(s, 1, Len(p)) = p

\* a slip: re.search in place of re.match
MatchesKeyPattern_Anywhere(title) == Contains(title, KEY_PATTERN)

\* KEY_PATTERN.match(title)
MatchesKeyPattern(title) == StartsWith(title, KEY_PATTERN)

\* filter_machine_setup_keys
FilterMachineSetupKeys(keys) ==
    LET Managed(k) == MatchesKeyPattern(k.title) IN SelectSeq(keys, Managed)

\* the --older-than argument: None when absent, else a string of characters
OlderThanArgs ==
    { None, Some(<<>>), Some(<<"0", "d">>), Some(<<"1", "d">>),
      Some(<<" ", "1", "d">>), Some(<<"1">>) }

Digits == {"0", "1", "2", "3", "4", "5", "6", "7", "8", "9"}

DigitValue(c) ==
    CASE c = "0" -> 0 [] c = "1" -> 1 [] c = "2" -> 2 [] c = "3" -> 3
      [] c = "4" -> 4 [] c = "5" -> 5 [] c = "6" -> 6 [] c = "7" -> 7
      [] c = "8" -> 8 [] OTHER -> 9

\* int() of a string of digits
RECURSIVE IntOf(_)
IntOf(s) ==
    IF s = <<>> THEN 0
    ELSE 10 * IntOf(SubSeq(s, 1, Len(s) - 1)) + DigitValue(s[Len(s)])

\* str.strip()
RECURSIVE Strip(_)
Strip(s) ==
    IF s # <<>> /\ Head(s) = " " THEN Strip(Tail(s))
    ELSE IF s # <<>> /\ s[Len(s)] = " " THEN Strip(SubSeq(s, 1, Len(s) - 1))
    ELSE s

\* parse_duration: re.match(r"^(\d+)d$", duration_str.strip())
ParseDuration(duration_str) ==
    LET t == Strip(duration_str) IN
    IF /\ Len(t) >= 2
       /\ t[Len(t)] = "d"
       /\ \A i \in 1..(Len(t) - 1) : t[i] \in Digits
    THEN Some(IntOf(SubSeq(t, 1, Len(t) - 1)))
    ELSE None

\* datetime.fromisoformat raises ValueError
IsoValueError(created_at) == ~(Len(created_at) = 2 /\ created_at[1] = "iso")

\* (now - created).days: whole days, rounded down
AgeDays(now, created) == (now - created) \div DayLen

\* a slip: >= in place of >
IsKeyOlderThan_OrEqual(key, days, now) ==
    IF key.created_at = <<>> THEN FALSE
    ELSE IF IsoValueError(key.created_at) THEN FALSE
    ELSE AgeDays(now, key.created_at[2]) >= days

\* is_key_older_than
IsKeyOlderThan(key, days, now) ==
    IF key.created_at = <<>> THEN FALSE
    ELSE IF IsoValueError(key.created_at) THEN FALSE
    ELSE AgeDays(now, key.created_at[2]) > days

\* Python's truth of an optional string
Truthy(opt) == opt # None /\ opt[1] # <<>>

\* a slip: the prompt's answer is not asked for
Approved_Always(yes, answer) == TRUE

\* prune_keys: `not yes and not click.confirm(...)` is false
Approved(yes, answer) == ~(~yes /\ ~answer)

(***************************************************************************)
(* secrets.py: key generation.                                             *)
(***************************************************************************)

\* the two ssh-keygen invocations of generate_ssh_key
DERIVE_PUBLIC == "ssh-keygen -y"
GENERATE_KEY == "ssh-keygen -t"

\* a slip: a private key without its public key is replaced by a new pair
GenerateSshKey_Regenerating(priv, pub, keygen, returncode, fresh) ==
    IF keygen /\ returncode = 0 /\ pub = 0
    THEN [ret |-> TRUE, priv |-> fresh, pub |-> fresh, fresh |-> TRUE,
          cmds |-> <<GENERATE_KEY>>]
    ELSE [ret |-> keygen /\ priv # 0 /\ pub # 0, priv |-> priv, pub |-> pub,
          fresh |-> FALSE, cmds |-> <<>>]

\* generate_ssh_key: the value returned, the key files afterwards and the
\* commands run (a file is 0 when absent, else the number of the key in it)
GenerateSshKey(priv, pub, keygen, returncode, fresh) ==
    LET same == [ret |-> FALSE, priv |-> priv, pub |-> pub, fresh |-> FALSE,
                 cmds |-> <<>>] IN
    IF ~keygen THEN same
    ELSE IF priv # 0 /\ pub # 0 THEN [same EXCEPT !.ret = TRUE]
    ELSE IF priv # 0 /\ pub = 0
         THEN IF returncode # 0 THEN [same EXCEPT !.cmds = <<DERIVE_PUBLIC>>]
              ELSE [same EXCEPT !.ret = TRUE, !.pub = priv,
                                !.cmds = <<DERIVE_PUBLIC>>]
    ELSE IF pub # 0 /\ priv = 0 THEN same
    ELSE IF returncode # 0 THEN [same EXCEPT !.cmds = <<GENERATE_KEY>>]
    ELSE [ret |-> TRUE, priv |-> fresh, pub |-> fresh, fresh |-> TRUE,
          cmds |-> <<GENERATE_KEY>>]

\* get_ssh_key_fingerprint
GetSshKeyFingerprint(pub, keygen, returncode) ==
    IF ~keygen THEN None
    ELSE IF pub = 0 THEN None
    ELSE IF returncode # 0 THEN None
    ELSE Some(SshFingerprint(pub))

\* the fingerprint of the first fpr: line of `gpg --list-keys <key_name>`:
\* that of the oldest key of the ring whose name matches
RECURSIVE FirstFingerprint(_, _)
FirstFingerprint(ring, key_name) ==
    IF ring = <<>> THEN None
    ELSE IF Contains(Head(ring).name, key_name) THEN Some(Head(ring).fpr)
    ELSE FirstFingerprint(Tail(ring), key_name)

\* generate_gpg_key: the GpgKeyResult (or None) and the keyring afterwards
GenerateGpgKey(ring, gpg, genCode, listCode, fresh, now) ==
    LET key_name == GenerateKeyName(now)
        grown == Append(ring, [fpr |-> GpgFingerprint(fresh), name |-> key_name,
                               key |-> fresh])
    IN  IF ~gpg THEN [result |-> None, ring |-> ring, fresh |-> FALSE]
        ELSE IF genCode # 0 THEN [result |-> None, ring |-> ring, fresh |-> FALSE]
        ELSE IF listCode # 0 THEN [result |-> None, ring |-> grown, fresh |-> TRUE]
        ELSE IF FirstFingerprint(grown, key_name) = None
             THEN [result |-> None, ring |-> grown, fresh |-> TRUE]
        ELSE [result |-> Some([fingerprint |-> FirstFingerprint(grown, key_name)[1],
                               key_name |-> key_name]),
              ring |-> grown, fresh |-> TRUE]

\* the key `gpg --armor --export <fingerprint>` exports
ExportedKey(ring, fingerprint) ==
    LET at == {i \in DOMAIN ring : ring[i].fpr = fingerprint} IN
    IF at = {} THEN 0 ELSE ring[CHOOSE i \in at : TRUE].key

ExportedName(ring, fingerprint) ==
    LET at == {i \in DOMAIN ring : ring[i].fpr = fingerprint} IN
    IF at = {} THEN <<>> ELSE ring[CHOOSE i \in at : TRUE].name

(***************************************************************************)
(* The commands: setup_ssh and setup_gpg step by step, `keys list` and     *)
(* `keys prune` each in one step. One command runs at a time.              *)
(***************************************************************************)
MaxUploads == 2

\* a slip: the key is recorded whatever the upload returned
ContinuesAfterUpload_Always(ret) == TRUE

\* setup_ssh: `if add_ssh_key_to_github(key_title):`; setup_gpg:
\* `if not add_gpg_key_to_github(...): return`
ContinuesAfterUpload(ret) == ret

\* the command that runs ends: what it did is there to see until its
\* process is gone
Finish(record) ==
    /\ cpc' = "done"
    /\ crun' = NoRun
    /\ clast' = record

\* the process of the command that ended is gone
Return ==
    /\ cpc = "done"
    /\ cpc' = "idle"
    /\ clast' = NoRun
    /\ UNCHANGED <<clock, sshPriv, sshPub, gpgRing, ghSsh, ghGpg, nextKey, nextId,
                   crun, regFile, notWorld>>

Event(step, ok) == [step |-> step, ok |-> ok]

\* the registry's records, as a new KeyRegistry reads them
RegistryKeys == Load(regFile).keys

\* time passes between commands
Tick ==
    /\ cpc = "idle"
    /\ clock < MaxClock
    /\ clock' = clock + 1
    /\ UNCHANGED <<sshPriv, sshPub, gpgRing, ghSsh, ghGpg, nextKey, nextId, cpc,
                   crun, clast, regFile, notWorld>>

\* setup_ssh up to the return of generate_ssh_key
SetupSshGenerate(generate, keygen, returncode) ==
    /\ cpc = "idle"
    /\ Len(RegistryKeys) < MaxRecords
    /\ (sshPriv = 0 /\ sshPub = 0) => nextKey <= MaxFreshKeys
    /\ LET start == [cmd |-> "setup_ssh", events |-> <<>>, regBefore |-> regFile,
                     title |-> <<>>, fingerprint |-> <<>>]
           g == GenerateSshKey(sshPriv, sshPub, keygen, returncode, nextKey)
       IN  IF ~generate
           THEN /\ Finish(start)
                /\ UNCHANGED <<sshPriv, sshPub, nextKey>>
           ELSE /\ sshPriv' = g.priv
                /\ sshPub' = g.pub
                /\ nextKey' = IF g.fresh THEN nextKey + 1 ELSE nextKey
                /\ IF g.ret
                   THEN /\ cpc' = "ssh_upload"
                        /\ crun' = [start EXCEPT
                                       !.events = <<Event("generate_ssh_key", TRUE)>>]
                        /\ UNCHANGED clast
                   ELSE Finish([start EXCEPT
                                   !.events = <<Event("generate_ssh_key", FALSE)>>])
    /\ UNCHANGED <<clock, gpgRing, ghSsh, ghGpg, nextId, regFile, notWorld>>

\* setup_ssh: key_title = generate_key_name(); add_ssh_key_to_github(title)
SetupSshUpload(pre, attempt) ==
    /\ cpc = "ssh_upload"
    /\ MayAnswer(ghSsh, sshPub, attempt.first)
    /\ MayAnswer(ghSsh, sshPub, attempt.second)
    /\ attempt.first.returncode = 0 \/ attempt.second.returncode = 0
          => nextId <= MaxUploads
    /\ LET key_title == GenerateKeyName(clock)
           o == IF pre /\ sshPub # 0
                THEN AddKeyOutcome(attempt.first, attempt.refreshCode, attempt.second)
                ELSE [ret |-> FALSE, added |-> FALSE]
           done == [crun EXCEPT
                      !.title = key_title,
                      !.events = Append(@, Event("add_ssh_key_to_github", o.ret))]
       IN  /\ ghSsh' = IF o.added
                       THEN Append(ghSsh, [id |-> nextId, title |-> key_title,
                                           createdAt |-> IsoFormat(clock),
                                           key |-> sshPub])
                       ELSE ghSsh
           /\ nextId' = IF o.added THEN nextId + 1 ELSE nextId
           /\ IF ContinuesAfterUpload(o.ret)
              THEN /\ cpc' = "ssh_fingerprint"
                   /\ crun' = done
                   /\ UNCHANGED clast
              ELSE Finish(done)
    /\ UNCHANGED <<clock, sshPriv, sshPub, gpgRing, ghGpg, nextKey, regFile, notWorld>>

\* setup_ssh: fingerprint = get_ssh_key_fingerprint()
SetupSshFingerprint(keygen, returncode) ==
    /\ cpc = "ssh_fingerprint"
    /\ LET fingerprint == GetSshKeyFingerprint(sshPub, keygen, returncode)
           done == [crun EXCEPT
                      !.events = Append(@, Event("get_ssh_key_fingerprint",
                                                 Truthy(fingerprint)))]
       IN  IF Truthy(fingerprint)
           THEN /\ cpc' = "ssh_record"
                /\ crun' = [done EXCEPT !.fingerprint = fingerprint[1]]
                /\ UNCHANGED clast
           ELSE Finish(done)
    /\ UNCHANGED <<clock, sshPriv, sshPub, gpgRing, ghSsh, ghGpg, nextKey, nextId,
                   regFile, notWorld>>

\* registry = KeyRegistry(); registry.add(KeyRecord(...)), which ends the command
RecordKey(key_type, createMode) ==
    LET l == Load(regFile)
        record == KeyRecord(key_type, crun.fingerprint, crun.title,
                            IsoFormat(clock), None)
    IN  IF l.raised # ""
        THEN /\ Finish([crun EXCEPT !.events = Append(@, Event("KeyRegistry", FALSE))])
             /\ UNCHANGED regFile
        ELSE IF ~CanWrite(regFile, FALSE)
        THEN /\ Finish([crun EXCEPT !.events = Append(@, Event("registry.add", FALSE))])
             /\ regFile' = SaveFailed(regFile)
        ELSE /\ Finish([crun EXCEPT !.events = Append(@, Event("registry.add", TRUE))])
             /\ regFile' = Save(regFile, Append(l.keys, record), createMode)

\* setup_ssh: the key recorded
SetupSshRecord(createMode) ==
    /\ cpc = "ssh_record"
    /\ RecordKey("ssh", createMode)
    /\ UNCHANGED <<clock, sshPriv, sshPub, gpgRing, ghSsh, ghGpg, nextKey, nextId,
                   notWorld>>

\* setup_gpg up to the return of generate_gpg_key
SetupGpgGenerate(gpg, genCode, listCode) ==
    /\ cpc = "idle"
    /\ Len(RegistryKeys) < MaxRecords
    /\ Len(gpgRing) < MaxRing
    /\ nextKey <= MaxFreshKeys
    /\ LET start == [cmd |-> "setup_gpg", events |-> <<>>, regBefore |-> regFile,
                     title |-> <<>>, fingerprint |-> <<>>]
           g == GenerateGpgKey(gpgRing, gpg, genCode, listCode, nextKey, clock)
       IN  /\ gpgRing' = g.ring
           /\ nextKey' = IF g.fresh THEN nextKey + 1 ELSE nextKey
           /\ IF g.result # None
              THEN /\ cpc' = "gpg_upload"
                   /\ crun' = [start EXCEPT
                                  !.events = <<Event("generate_gpg_key", TRUE)>>,
                                  !.title = g.result[1].key_name,
                                  !.fingerprint = g.result[1].fingerprint]
                   /\ UNCHANGED clast
              ELSE Finish([start EXCEPT !.events = <<Event("generate_gpg_key", FALSE)>>])
    /\ UNCHANGED <<clock, sshPriv, sshPub, ghSsh, ghGpg, nextId, regFile, notWorld>>

\* setup_gpg: add_gpg_key_to_github(gpg_result.fingerprint); `listedKeyId` is
\* whether GitHub will list a keyId for the key
SetupGpgUpload(pre, exportCode, attempt, listedKeyId) ==
    /\ cpc = "gpg_upload"
    /\ LET key == ExportedKey(gpgRing, crun.fingerprint)
           o == IF pre /\ exportCode = 0 /\ key # 0
                THEN AddKeyOutcome(attempt.first, attempt.refreshCode, attempt.second)
                ELSE [ret |-> FALSE, added |-> FALSE]
           done == [crun EXCEPT
                      !.events = Append(@, Event("add_gpg_key_to_github", o.ret))]
       IN  /\ MayAnswer(ghGpg, key, attempt.first)
           /\ MayAnswer(ghGpg, key, attempt.second)
           /\ attempt.first.returncode = 0 \/ attempt.second.returncode = 0
                 => nextId <= MaxUploads
           /\ ghGpg' = IF o.added
                       THEN Append(ghGpg,
                                [id |-> nextId,
                                 name |-> ExportedName(gpgRing, crun.fingerprint),
                                 createdAt |-> IsoFormat(clock),
                                 keyId |-> IF listedKeyId THEN Some(crun.fingerprint)
                                           ELSE None,
                                 key |-> key])
                       ELSE ghGpg
           /\ nextId' = IF o.added THEN nextId + 1 ELSE nextId
           /\ IF ContinuesAfterUpload(o.ret)
              THEN /\ cpc' = "gpg_record"
                   /\ crun' = done
                   /\ UNCHANGED clast
              ELSE Finish(done)
    /\ UNCHANGED <<clock, sshPriv, sshPub, gpgRing, ghSsh, nextKey, regFile, notWorld>>

\* setup_gpg: the key recorded
SetupGpgRecord(createMode) ==
    /\ cpc = "gpg_record"
    /\ RecordKey("gpg", createMode)
    /\ UNCHANGED <<clock, sshPriv, sshPub, gpgRing, ghSsh, ghGpg, nextKey, nextId,
                   notWorld>>

\* prune_keys up to the confirmation: how it ends there (exit status and
\* message), or the keys to delete
PrunePlan(ssh_result, gpg_result, older_than, now) ==
    LET ssh_keys == FilterMachineSetupKeys(ssh_result.keys)
        gpg_keys == FilterMachineSetupKeys(gpg_result.keys)
        all_keys == ssh_keys \o gpg_keys
        days == ParseDuration(older_than[1])
        Older(k) == IsKeyOlderThan(k, days[1], now)
    IN  IF all_keys = <<>>
        THEN [exit |-> 0, message |-> "none_found", targets |-> <<>>]
        ELSE IF ~Truthy(older_than)
        THEN [exit |-> 0, message |-> "delete", targets |-> all_keys]
        ELSE IF days = None
        THEN [exit |-> 1, message |-> "invalid_duration", targets |-> <<>>]
        ELSE IF SelectSeq(all_keys, Older) = <<>>
        THEN [exit |-> 0, message |-> "none_older", targets |-> <<>>]
        ELSE [exit |-> 0, message |-> "delete", targets |-> SelectSeq(all_keys, Older)]

\* prune_keys' loop on the registry: the records left once every key whose
\* delete command succeeded has been removed
RECURSIVE RegistryAfterPrune(_, _, _, _)
RegistryAfterPrune(targets, deleted, i, keys) ==
    IF i > Len(targets) THEN keys
    ELSE LET key == targets[i] IN
         RegistryAfterPrune(targets, deleted, i + 1,
            IF ~deleted[i] THEN keys
            ELSE IF key.key_type = "ssh" THEN WithoutTitle(keys, key.title)
            ELSE IF Truthy(key.fingerprint)
                 THEN WithoutFingerprint(keys, key.fingerprint[1])
            ELSE WithoutTitle(keys, key.title))

\* the account's keys of one type once `gh ... delete <key_id> --yes` has
\* succeeded for the targets marked deleted
RowsAfterPrune(rows, key_type, targets, deleted) ==
    LET Kept(row) ==
            ~\E i \in DOMAIN targets :
                /\ deleted[i]
                /\ targets[i].key_type = key_type
                /\ targets[i].key_id = ToString(row.id)
    IN  SelectSeq(rows, Kept)

\* what a run of prune_keys leaves to see; an argument is noted when the
\* function first reads it
PruneRecord ==
    [cmd |-> "prune", older_than |-> None, yes |-> FALSE, gh |-> TRUE,
     ssh_outcome |-> "ok", gpg_outcome |-> "ok", asked |-> FALSE, answer |-> FALSE,
     exit |-> 0, message |-> "", now |-> clock, deletes |-> <<>>,
     regBefore |-> regFile, sshBefore |-> ghSsh, gpgBefore |-> ghGpg]

\* prune_keys from `registry = KeyRegistry()` on; deleted[i] is whether the
\* delete command of the i-th key succeeds. The registry file, written by this
\* tool alone, is writable here.
PruneDelete(record, targets, deleted) ==
    LET l == Load(regFile)
        after == RegistryAfterPrune(targets, deleted, 1, l.keys)
    IN  IF l.raised # ""
        THEN /\ Finish([record EXCEPT !.exit = 1, !.message = l.raised])
             /\ UNCHANGED <<ghSsh, ghGpg, regFile>>
        ELSE /\ ghSsh' = RowsAfterPrune(ghSsh, "ssh", targets, deleted)
             /\ ghGpg' = RowsAfterPrune(ghGpg, "gpg", targets, deleted)
             /\ regFile' = IF Len(after) < Len(l.keys)
                           THEN Save(regFile, after, REGISTRY_MODE)
                           ELSE regFile
             /\ Finish([record EXCEPT
                           !.message = "deleted",
                           !.deletes = [i \in DOMAIN targets |->
                                           [key |-> targets[i], ok |-> deleted[i]]]])

\* `machine-setup keys prune [--older-than <older_than>] [--yes]`
PruneKeys ==
    /\ cpc = "idle"
    /\ \E gh \in BOOLEAN :
          IF ~gh
          THEN /\ Finish([PruneRecord EXCEPT !.gh = FALSE, !.exit = 1,
                                             !.message = "gh_not_found"])
               /\ UNCHANGED <<ghSsh, ghGpg, regFile>>
          ELSE \E so \in ListOutcomes, go \in ListOutcomes :
                 LET ssh_result == KeyListResult(so, SshKeysListed(ghSsh))
                     gpg_result == KeyListResult(go, GpgKeysListed(ghGpg))
                     listed == [PruneRecord EXCEPT !.ssh_outcome = so,
                                                   !.gpg_outcome = go]
                 IN  IF ListingErrors(ssh_result, gpg_result) # <<>>
                     THEN /\ Finish([listed EXCEPT !.exit = 1,
                                                   !.message = "listing_failed"])
                          /\ UNCHANGED <<ghSsh, ghGpg, regFile>>
                     ELSE IF FilterMachineSetupKeys(ssh_result.keys)
                               \o FilterMachineSetupKeys(gpg_result.keys) = <<>>
                     THEN /\ Finish([listed EXCEPT !.message = "none_found"])
                          /\ UNCHANGED <<ghSsh, ghGpg, regFile>>
                     ELSE \E older_than \in OlderThanArgs :
                       LET plan == PrunePlan(ssh_result, gpg_result, older_than, clock)
                           planned == [listed EXCEPT !.older_than = older_than]
                       IN  IF plan.message # "delete"
                           THEN /\ Finish([planned EXCEPT !.exit = plan.exit,
                                                          !.message = plan.message])
                                /\ UNCHANGED <<ghSsh, ghGpg, regFile>>
                           ELSE \E yes \in BOOLEAN :
                                \E answer \in (IF yes THEN {FALSE} ELSE BOOLEAN) :
                                  LET asked == [planned EXCEPT !.yes = yes,
                                                               !.asked = ~yes,
                                                               !.answer = answer]
                                  IN  IF ~Approved(yes, answer)
                                      THEN /\ Finish([asked EXCEPT
                                                         !.message = "aborted"])
                                           /\ UNCHANGED <<ghSsh, ghGpg, regFile>>
                                      ELSE \E deleted \in
                                                 [DOMAIN plan.targets -> BOOLEAN] :
                                             PruneDelete(asked, plan.targets, deleted)
    /\ UNCHANGED <<clock, sshPriv, sshPub, gpgRing, nextKey, nextId, notWorld>>

\* `machine-setup keys list`
ListKeys ==
    /\ cpc = "idle"
    /\ \E gh \in BOOLEAN :
          LET base == [cmd |-> "list", gh |-> gh, ssh_outcome |-> "ok",
                       gpg_outcome |-> "ok", exit |-> 0, shown |-> <<>>,
                       sshBefore |-> ghSsh, gpgBefore |-> ghGpg]
          IN  IF ~gh
              THEN Finish([base EXCEPT !.exit = 1])
              ELSE \E so \in ListOutcomes, go \in ListOutcomes :
                     LET ssh_result == KeyListResult(so, SshKeysListed(ghSsh))
                         gpg_result == KeyListResult(go, GpgKeysListed(ghGpg))
                         listed == [base EXCEPT !.ssh_outcome = so,
                                                !.gpg_outcome = go]
                     IN  IF ListingErrors(ssh_result, gpg_result) # <<>>
                         THEN Finish([listed EXCEPT !.exit = 1])
                         ELSE Finish([listed EXCEPT
                                 !.shown = FilterMachineSetupKeys(ssh_result.keys)
                                     \o FilterMachineSetupKeys(gpg_result.keys)])
    /\ UNCHANGED <<clock, sshPriv, sshPub, gpgRing, ghSsh, ghGpg, nextKey, nextId,
                   regFile, notWorld>>

KeysNext ==
    \/ Tick
    \/ \E generate \in BOOLEAN, keygen \in BOOLEAN, rc \in {0, 1} :
          SetupSshGenerate(generate, keygen, rc)
    \/ \E pre \in BOOLEAN, attempt \in UploadAttempts : SetupSshUpload(pre, attempt)
    \/ \E keygen \in BOOLEAN, rc \in {0, 1} : SetupSshFingerprint(keygen, rc)
    \/ \E m \in CreateModes : SetupSshRecord(m)
    \/ \E gpg \in BOOLEAN, genCode \in {0, 1}, listCode \in {0, 1} :
          SetupGpgGenerate(gpg, genCode, listCode)
    \/ \E pre \in BOOLEAN, exportCode \in {0, 1}, attempt \in UploadAttempts,
          listedKeyId \in BOOLEAN :
          SetupGpgUpload(pre, exportCode, attempt, listedKeyId)
    \/ \E m \in CreateModes : SetupGpgRecord(m)
    \/ ListKeys
    \/ PruneKeys
    \/ Return

InitKeys ==
    /\ AppIdle
    /\ UploadInit
    /\ regFile = NoFile(FALSE)
    /\ InstInit
    /\ clock = 0
    /\ sshPriv = 0
    /\ sshPub = 0
    /\ gpgRing = <<>>
    /\ ghSsh \in {<<>>, ForeignSsh}
    /\ ghGpg = IF ghSsh = <<>> THEN <<>> ELSE ForeignGpg
    /\ nextKey = 1
    /\ nextId = 1
    /\ cpc = "idle"
    /\ crun = NoRun
    /\ clast = NoRun

SpecKeys == InitKeys /\ [][KeysNext]_vars

\* setup_ssh and setup_gpg alone
SetupNext ==
    \/ Tick
    \/ \E generate \in BOOLEAN, keygen \in BOOLEAN, rc \in {0, 1} :
          SetupSshGenerate(generate, keygen, rc)
    \/ \E pre \in BOOLEAN, attempt \in UploadAttempts : SetupSshUpload(pre, attempt)
    \/ \E keygen \in BOOLEAN, rc \in {0, 1} : SetupSshFingerprint(keygen, rc)
    \/ \E m \in CreateModes : SetupSshRecord(m)
    \/ \E gpg \in BOOLEAN, genCode \in {0, 1}, listCode \in {0, 1} :
          SetupGpgGenerate(gpg, genCode, listCode)
    \/ \E pre \in BOOLEAN, exportCode \in {0, 1}, attempt \in UploadAttempts,
          listedKeyId \in BOOLEAN :
          SetupGpgUpload(pre, exportCode, attempt, listedKeyId)
    \/ \E m \in CreateModes : SetupGpgRecord(m)
    \/ Return

SpecSetup == InitKeys /\ [][SetupNext]_vars

\* what setup_ssh and setup_gpg, run at time 0, put on the account and in the
\* registry: the SSH key is key 1, the GPG key is key 2
OwnSshRow ==
    [id |-> 1, title |-> GenerateKeyName(0), createdAt |-> IsoFormat(0), key |-> 1]

OwnGpgRow(listedKeyId) ==
    [id |-> 2, name |-> GenerateKeyName(0), createdAt |-> IsoFormat(0),
     keyId |-> IF listedKeyId THEN Some(GpgFingerprint(2)) ELSE None, key |-> 2]

OwnSshRecord ==
    KeyRecord("ssh", SshFingerprint(1), GenerateKeyName(0), IsoFormat(0), None)

OwnGpgRecord ==
    KeyRecord("gpg", GpgFingerprint(2), GenerateKeyName(0), IsoFormat(0), None)

\* `keys list` and `keys prune` alone
PruneNext ==
    \/ Tick
    \/ ListKeys
    \/ PruneKeys
    \/ Return

\* a machine on which setup_ssh and setup_gpg have run: each key may be on
\* the account or not (the upload failed, the user deleted it), and in the
\* registry or not (the record was never written)
InitPrune ==
    /\ AppIdle
    /\ UploadInit
    /\ InstInit
    /\ regFile \in { NoFile(FALSE),
                     Save(NoFile(FALSE), <<OwnSshRecord>>, REGISTRY_MODE),
                     Save(NoFile(FALSE), <<OwnGpgRecord>>, REGISTRY_MODE),
                     Save(NoFile(FALSE), <<OwnSshRecord, OwnGpgRecord>>,
                          REGISTRY_MODE) }
    /\ clock = 0
    /\ sshPriv = 1
    /\ sshPub = 1
    /\ gpgRing = << [fpr |-> GpgFingerprint(2), name |-> GenerateKeyName(0),
                     key |-> 2] >>
    /\ ghSsh \in {<<>>, ForeignSsh, Append(ForeignSsh, OwnSshRow)}
    /\ ghGpg \in {<<>>, ForeignGpg, Append(ForeignGpg, OwnGpgRow(TRUE)),
                  Append(ForeignGpg, OwnGpgRow(FALSE))}
    /\ nextKey = 3
    /\ nextId = 3
    /\ cpc = "idle"
    /\ crun = NoRun
    /\ clast = NoRun

SpecPrune == InitPrune /\ [][PruneNext]_vars

(***************************************************************************)
(* What the commands guarantee. A command that ended is read from clast    *)
(* while cpc = "done".                                                     *)
(***************************************************************************)
Ended(cmd) == cpc = "done" /\ clast.cmd = cmd

\* the steps of a setup command that recorded its key, in order
StepsToRecord(cmd) ==
    IF cmd = "setup_ssh"
    THEN << Event("generate_ssh_key", TRUE), Event("add_ssh_key_to_github", TRUE),
            Event("get_ssh_key_fingerprint", TRUE), Event("registry.add", TRUE) >>
    ELSE << Event("generate_gpg_key", TRUE), Event("add_gpg_key_to_github", TRUE),
            Event("registry.add", TRUE) >>

SetupEnded == cpc = "done" /\ clast.cmd \in {"setup_ssh", "setup_gpg"}

\* C3: when setup_ssh or setup_gpg has ended, the registry file differs from
\* what it was when the command started only if generation succeeded, then the
\* upload returned True, then (SSH) a fingerprint was derived, then the record
\* was added, in that order; the file then holds the records it held plus one.
\* A run in which generation failed, the upload returned False or no
\* fingerprint was derived leaves the file as it was, absent if it was absent.
C3_RecordOnlyAfterUpload ==
    SetupEnded =>
        /\ regFile # clast.regBefore =>
              /\ clast.events = StepsToRecord(clast.cmd)
              /\ Len(RegistryKeys) = Len(Load(clast.regBefore).keys) + 1
        /\ (\E i \in DOMAIN clast.events :
               /\ clast.events[i].step # "registry.add"
               /\ ~clast.events[i].ok)
              => regFile = clast.regBefore

\* setup_gpg recorded its key, and setup_ssh ended on an upload that returned
\* False
C3_Witness ==
    /\ Ended("setup_gpg")
    /\ regFile # clast.regBefore
    /\ ~clast.regBefore.exists

C3_WitnessUploadFailed ==
    /\ Ended("setup_ssh")
    /\ Len(clast.events) = 2
    /\ ~clast.events[2].ok

\* the key GitHub held under the id of a listed key
RowsOf(key) ==
    LET rows == IF key.key_type = "ssh" THEN clast.sshBefore ELSE clast.gpgBefore
    IN  {rows[j] : j \in {j \in DOMAIN rows : ToString(rows[j].id) = key.key_id}}

\* a record of the key of a GitHub row: a record of its type with the local
\* fingerprint of its key material
IsRecordOf(record, key_type, row) ==
    /\ record.key_type = key_type
    /\ record.fingerprint = IF key_type = "ssh" THEN SshFingerprint(row.key)
                            ELSE GpgFingerprint(row.key)

\* C4: when `keys prune` has ended, the registry holds no record of a key
\* whose delete command succeeded.
C4_NoRecordOfDeletedKey ==
    Ended("prune") =>
        \A i \in DOMAIN clast.deletes :
            clast.deletes[i].ok =>
                \A row \in RowsOf(clast.deletes[i].key) :
                    \A n \in DOMAIN RegistryKeys :
                        ~IsRecordOf(RegistryKeys[n], clast.deletes[i].key.key_type, row)

\* the record is that of a key this run of `keys prune` deleted on GitHub
RecordOfDeletedKey(record) ==
    \E i \in DOMAIN clast.deletes :
        /\ clast.deletes[i].ok
        /\ \E row \in RowsOf(clast.deletes[i].key) :
              IsRecordOf(record, clast.deletes[i].key.key_type, row)

\* C16: when `keys prune` has ended, every record the registry held before of
\* a key that the run did not delete on GitHub (its delete failed, or it was
\* not selected) is still in the registry.
C16_RecordRemovedOnlyWithKey ==
    Ended("prune") =>
        \A n \in DOMAIN Load(clast.regBefore).keys :
            LET record == Load(clast.regBefore).keys[n] IN
            RecordOfDeletedKey(record)
               \/ \E m \in DOMAIN RegistryKeys : RegistryKeys[m] = record

PruneChangedNothing ==
    /\ clast.deletes = <<>>
    /\ regFile = clast.regBefore
    /\ ghSsh = clast.sshBefore
    /\ ghGpg = clast.gpgBefore

\* C5: when `keys prune` has ended and neither --yes was given nor the prompt
\* answered yes, no delete command was issued and the registry file and the
\* account's keys are what they were; when the prompt was shown and declined
\* the exit status is 0 as well.
C5_NoDeleteWithoutConsent ==
    Ended("prune") =>
        /\ ~(clast.yes \/ clast.answer) => PruneChangedNothing
        /\ (clast.asked /\ ~clast.answer) => clast.exit = 0 /\ PruneChangedNothing

\* the prompt was shown over keys the registry records, and declined
C5_Witness ==
    /\ Ended("prune")
    /\ clast.asked
    /\ ~clast.answer
    /\ clast.message = "aborted"
    /\ RegistryKeys # <<>>

\* the title starts with 'machine-setup-'
HasPrefix(title) ==
    /\ Len(title) >= 4
    /\ title[1] = "machine"
    /\ title[2] = "-"
    /\ title[3] = "setup"
    /\ title[4] = "-"

\* C6: every key `keys prune` issued a delete command for has a title that
\* starts with 'machine-setup-', every key of the account titled otherwise is
\* still there when the command has ended, whatever --older-than was, and
\* every key `keys list` shows has such a title.
C6_OnlyManagedTitles ==
    /\ Ended("prune") =>
          /\ \A i \in DOMAIN clast.deletes : HasPrefix(clast.deletes[i].key.title)
          /\ \A j \in DOMAIN clast.sshBefore :
                ~HasPrefix(clast.sshBefore[j].title) =>
                    \E m \in DOMAIN ghSsh : ghSsh[m] = clast.sshBefore[j]
          /\ \A j \in DOMAIN clast.gpgBefore :
                ~HasPrefix(clast.gpgBefore[j].name) =>
                    \E m \in DOMAIN ghGpg : ghGpg[m] = clast.gpgBefore[j]
    /\ Ended("list") =>
          \A i \in DOMAIN clast.shown : HasPrefix(clast.shown[i].title)

\* keys were deleted from an account that holds keys titled otherwise, one of
\* them with 'machine-setup-' further in its title
C6_Witness ==
    /\ Ended("prune")
    /\ \E i \in DOMAIN clast.deletes : clast.deletes[i].ok
    /\ \E j \in DOMAIN clast.sshBefore :
          /\ ~HasPrefix(clast.sshBefore[j].title)
          /\ Contains(clast.sshBefore[j].title, KEY_PATTERN)

\* the N of an --older-than argument that reads Nd
DaysAsked ==
    { <<Some(<<"0", "d">>), 0>>, <<Some(<<"1", "d">>), 1>>,
      <<Some(<<" ", "1", "d">>), 1>> }

\* C7: when `keys prune --older-than Nd` has ended, every key it issued a
\* delete command for has a creation date that parses and lies at least N+1
\* whole days before the time of the run.
C7_OnlyOlderKeys ==
    Ended("prune") =>
        \A a \in DaysAsked :
            clast.older_than = a[1] =>
                \A i \in DOMAIN clast.deletes :
                    LET created == clast.deletes[i].key.created_at IN
                    /\ Len(created) = 2
                    /\ created[1] = "iso"
                    /\ clast.now - created[2] >= (a[2] + 1) * DayLen

\* --older-than 1d deleted a key while the account holds machine-setup keys
\* one day old, with no date and with an unparseable one
C7_Witness ==
    /\ Ended("prune")
    /\ clast.older_than = Some(<<"1", "d">>)
    /\ \E i \in DOMAIN clast.deletes : clast.deletes[i].ok
    /\ \E j \in DOMAIN clast.sshBefore :
          /\ HasPrefix(clast.sshBefore[j].title)
          /\ clast.sshBefore[j].createdAt = <<>>
    /\ \E j \in DOMAIN clast.sshBefore :
          /\ HasPrefix(clast.sshBefore[j].title)
          /\ Len(clast.sshBefore[j].createdAt) = 2
          /\ clast.now - clast.sshBefore[j].createdAt[2] = DayLen
    /\ \E j \in DOMAIN clast.gpgBefore :
          /\ HasPrefix(clast.gpgBefore[j].name)
          /\ clast.gpgBefore[j].createdAt = <<"not-a-date">>

ListingFailed ==
    ~clast.gh \/ clast.ssh_outcome # "ok" \/ clast.gpg_outcome # "ok"

\* C8: when `keys list` or `keys prune` has ended and gh was missing or one of
\* the two listings failed, the exit status is 1; prune then issued no delete
\* command and left the registry file and the account's keys as they were.
C8_ListingFailureStops ==
    /\ (Ended("list") /\ ListingFailed) => clast.exit = 1
    /\ (Ended("prune") /\ ListingFailed) => clast.exit = 1 /\ PruneChangedNothing

\* prune ended on a failed GPG listing while the SSH listing succeeded with
\* machine-setup keys in it and the registry held records
C8_Witness ==
    /\ Ended("prune")
    /\ clast.ssh_outcome = "ok"
    /\ clast.gpg_outcome # "ok"
    /\ \E j \in DOMAIN clast.sshBefore : HasPrefix(clast.sshBefore[j].title)
    /\ RegistryKeys # <<>>

\* the setup command that ended found its key's fingerprint already recorded
\* when it started
RecordedBefore ==
    /\ clast.fingerprint # <<>>
    /\ \E n \in DOMAIN Load(clast.regBefore).keys :
          Load(clast.regBefore).keys[n].fingerprint = clast.fingerprint

\* C11: when setup_ssh or setup_gpg has ended on a key whose fingerprint the
\* registry already recorded (the key existed locally, GitHub answered that
\* it is already registered), the registry holds the records it held before
\* the run: no fingerprint is recorded twice.
C11_SecondRunKeepsRecords ==
    (SetupEnded /\ RecordedBefore) => RegistryKeys = Load(clast.regBefore).keys

(***************************************************************************)
(* config.py: SetupConfig's getters.                                       *)
(***************************************************************************)
MaxCalls == 3

\* list(base), extended with the dev list for dev and full, and with the
\* full list for full
Cumulative(lists, base, dev, full, preset) ==
    lists[base]
        \o (IF preset \in {"dev", "full"} THEN lists[dev] ELSE <<>>)
        \o (IF preset = "full" THEN lists[full] ELSE <<>>)

\* a slip: the module's list itself is extended
ModuleAfterCumulative_Aliased(lists, base, result) == [lists EXCEPT ![base] = result]

\* the module's lists after a cumulative getter: `list(base)` is a copy, so
\* extend() leaves the module's list as it was
ModuleAfterCumulative(lists, base, result) == lists

\* a call of a cumulative getter
CfgCumulativeCall(fn, base, dev, full, preset) ==
    LET result == Cumulative(cfgModule, base, dev, full, preset) IN
    /\ cfgCalls' = Append(cfgCalls, [fn |-> fn, preset |-> preset, result |-> result])
    /\ cfgModule' = ModuleAfterCumulative(cfgModule, base, result)
    /\ UNCHANGED <<mainVars, taskbarVars, hostVars, notApp>>

\* SetupConfig(preset).get_packages()
GetPackages(preset) ==
    /\ Len(cfgCalls) < MaxCalls
    /\ CfgCumulativeCall("get_packages", "PACKAGES_MINIMAL", "PACKAGES_DEV",
                         "PACKAGES_FULL", preset)

\* SetupConfig(preset).get_uv_tools()
GetUvTools(preset) ==
    /\ Len(cfgCalls) < MaxCalls
    /\ CfgCumulativeCall("get_uv_tools", "UV_TOOLS_MINIMAL", "UV_TOOLS_DEV",
                         "UV_TOOLS_FULL", preset)

\* SetupConfig(preset).get_npm_tools()
GetNpmTools(preset) ==
    /\ Len(cfgCalls) < MaxCalls
    /\ CfgCumulativeCall("get_npm_tools", "NPM_TOOLS_MINIMAL", "NPM_TOOLS_DEV",
                         "NPM_TOOLS_FULL", preset)

\* SetupConfig(preset).get_stow_packages(): the module's list for the preset
GetStowPackages(preset) ==
    /\ Len(cfgCalls) < MaxCalls
    /\ cfgCalls' = Append(cfgCalls, [fn |-> "get_stow_packages", preset |-> preset,
                                     result |-> cfgModule.STOW_PACKAGES[preset]])
    /\ UNCHANGED <<cfgModule, mainVars, taskbarVars, hostVars, notApp>>

ConfigNext ==
    \/ \E preset \in Presets : GetPackages(preset)
    \/ \E preset \in Presets : GetUvTools(preset)
    \/ \E preset \in Presets : GetNpmTools(preset)
    \/ \E preset \in Presets : GetStowPackages(preset)

InitConfig ==
    /\ AppIdle
    /\ UploadInit
    /\ regFile = NoFile(FALSE)
    /\ InstInit
    /\ WorldIdle

SpecConfig == InitConfig /\ [][ConfigNext]_vars

\* minimal, dev, full in the order of containment
PresetRank(preset) ==
    CASE preset = "minimal" -> 1 [] preset = "dev" -> 2 [] OTHER -> 3

Elements(list) == {list[i] : i \in DOMAIN list}

\* C12: among the calls made so far, in whatever order they were made, two
\* calls of the same getter give contained results when their presets are
\* minimal <= dev <= full, and the same result when their presets are the
\* same; get_packages gives PACKAGES_MINIMAL followed by PACKAGES_DEV for dev
\* and that followed by PACKAGES_FULL for full.
C12_PresetsCumulative ==
    \A i \in DOMAIN cfgCalls :
        /\ \A j \in DOMAIN cfgCalls :
              cfgCalls[i].fn = cfgCalls[j].fn =>
                  /\ PresetRank(cfgCalls[i].preset) <= PresetRank(cfgCalls[j].preset)
                        => Elements(cfgCalls[i].result) \subseteq Elements(cfgCalls[j].result)
                  /\ cfgCalls[i].preset = cfgCalls[j].preset
                        => cfgCalls[i].result = cfgCalls[j].result
        /\ cfgCalls[i].fn = "get_packages" =>
              /\ cfgCalls[i].preset = "minimal" => cfgCalls[i].result = PACKAGES_MINIMAL
              /\ cfgCalls[i].preset = "dev"
                    => cfgCalls[i].result = PACKAGES_MINIMAL \o PACKAGES_DEV
              /\ cfgCalls[i].preset = "full"
                    => cfgCalls[i].result
                          = (PACKAGES_MINIMAL \o PACKAGES_DEV) \o PACKAGES_FULL

\* get_packages was called for full, then for minimal, then for dev
C12_Witness ==
    /\ Len(cfgCalls) = 3
    /\ \A i \in 1..3 : cfgCalls[i].fn = "get_packages"
    /\ cfgCalls[1].preset = "full"
    /\ cfgCalls[2].preset = "minimal"
    /\ cfgCalls[3].preset = "dev"

(***************************************************************************)
(* main.py: run_setup.                                                     *)
(***************************************************************************)

\* the calls of run_setup's try block, in the order of the source
StepOrder ==
    << "install_packages", "install_uv_tools", "install_npm_tools",
       "install_claude_code", "install_scc", "install_fira_code", "install_quarto",
       "create_repos_structure", "clone_dotfiles", "stow_dotfiles",
       "rebuild_bat_cache", "setup_scripts_symlink", "setup_windows_configs",
       "setup_ssh", "setup_gpg", "setup_vim", "setup_ipython_math_profile",
       "setup_locale", "setup_shell" >>

\* --generate-gpg-key: absent, given an empty string, given an address
GpgEmails == {None, Some(<<>>), Some(<<"me@example.org">>)}

RunOptions ==
    [preset : Presets, generate_ssh_key : BOOLEAN, gpg_email : GpgEmails,
     skip_packages : BOOLEAN, skip_dotfiles : BOOLEAN, skip_vim : BOOLEAN,
     skip_windows : BOOLEAN, verbose : BOOLEAN]

\* a slip: the preset is not looked at
InPreset_Any(preset, tiers) == TRUE

\* config.preset in (Preset.DEV, Preset.FULL); config.preset == Preset.FULL
InPreset(preset, tiers) == preset \in tiers

\* whether run_setup, with options o, reaches the call of `step`
Runs(step, o) ==
    CASE step \in {"install_packages", "install_uv_tools", "install_npm_tools"} ->
            ~o.skip_packages
      [] step \in {"install_claude_code", "install_scc", "install_fira_code"} ->
            ~o.skip_packages /\ InPreset(o.preset, {"dev", "full"})
      [] step = "install_quarto" ->
            ~o.skip_packages /\ InPreset(o.preset, {"full"})
      [] step \in {"clone_dotfiles", "stow_dotfiles", "rebuild_bat_cache"} ->
            ~o.skip_dotfiles
      [] step = "setup_scripts_symlink" ->
            ~o.skip_dotfiles /\ InPreset(o.preset, {"dev", "full"})
      [] step = "setup_windows_configs" -> ~o.skip_dotfiles /\ ~o.skip_windows
      [] step = "setup_ssh" -> o.generate_ssh_key
      [] step = "setup_gpg" -> Truthy(o.gpg_email)
      [] step = "setup_vim" -> ~o.skip_vim
      [] step = "setup_ipython_math_profile" -> InPreset(o.preset, {"dev", "full"})
      [] OTHER -> TRUE

\* the place of the first call reached at or after place i, or one past the
\* last place
RECURSIVE NextAt(_, _)
NextAt(o, i) ==
    IF i > Len(StepOrder) THEN i
    ELSE IF Runs(StepOrder[i], o) THEN i
    ELSE NextAt(o, i + 1)

\* a slip: the failure is reported as success
ExitAfterRaise_Zero(verbose) == "0"

\* the except branch: `raise` when verbose, else sys.exit(1)
ExitAfterRaise(verbose) == IF verbose THEN "raised" ELSE "1"

\* `machine-setup run` is invoked with options o
RunSetup(o) ==
    /\ mpc = "idle"
    /\ mpc' = "running"
    /\ mopts' = o
    /\ mpos' = NextAt(o, 1)
    /\ UNCHANGED <<mlog, mcomplete, mexit, cfgVars, taskbarVars, hostVars, notApp>>

\* the call at place mpos returns; after the last one "Setup complete" is
\* logged and run_setup returns
StepReturns ==
    /\ mpc = "running"
    /\ mpos <= Len(StepOrder)
    /\ mlog' = Append(mlog, [step |-> StepOrder[mpos], returned |-> TRUE])
    /\ mpos' = NextAt(mopts, mpos + 1)
    /\ IF mpos' > Len(StepOrder)
       THEN /\ mcomplete' = TRUE
            /\ mexit' = "0"
            /\ mpc' = "done"
       ELSE UNCHANGED <<mcomplete, mexit, mpc>>
    /\ UNCHANGED <<mopts, cfgVars, taskbarVars, hostVars, notApp>>

\* the call at place mpos raises an Exception
StepRaises ==
    /\ mpc = "running"
    /\ mpos <= Len(StepOrder)
    /\ mlog' = Append(mlog, [step |-> StepOrder[mpos], returned |-> FALSE])
    /\ mexit' = ExitAfterRaise(mopts.verbose)
    /\ mpc' = "done"
    /\ UNCHANGED <<mopts, mpos, mcomplete, cfgVars, taskbarVars, hostVars, notApp>>

MainNext ==
    \/ \E o \in RunOptions : RunSetup(o)
    \/ StepReturns
    \/ StepRaises

InitMain ==
    /\ AppIdle
    /\ UploadInit
    /\ regFile = NoFile(FALSE)
    /\ InstInit
    /\ WorldIdle

SpecMain == InitMain /\ [][MainNext]_vars

\* the step was called during the invocation
Called(step) == \E i \in DOMAIN mlog : mlog[i].step = step

\* the invocation ran to its end with no step raising
RanThrough == mpc = "done" /\ mexit = "0"

DevOrFull == mopts.preset \in {"dev", "full"}

\* the gating the options have in common under both readings of C13
GatingOfTheRest ==
    /\ \A s \in {"install_packages", "install_uv_tools", "install_npm_tools"} :
          Called(s) <=> ~mopts.skip_packages
    /\ \A s \in {"install_claude_code", "install_scc", "install_fira_code"} :
          Called(s) <=> (~mopts.skip_packages /\ DevOrFull)
    /\ Called("install_quarto") <=> (~mopts.skip_packages /\ mopts.preset = "full")
    /\ \A s \in {"clone_dotfiles", "stow_dotfiles", "rebuild_bat_cache"} :
          Called(s) <=> ~mopts.skip_dotfiles
    /\ Called("setup_vim") <=> ~mopts.skip_vim
    /\ Called("setup_ssh") <=> mopts.generate_ssh_key
    /\ Called("setup_ipython_math_profile") <=> DevOrFull
    /\ \A s \in {"create_repos_structure", "setup_locale", "setup_shell"} : Called(s)

\* C13 as stated: in an invocation that ran through, each step group was
\* called iff its own option allows it: the scripts symlink iff
\* --skip-dotfiles is absent, the Windows configuration iff --skip-windows is
\* absent, GPG setup iff --generate-gpg-key was given.
C13_EachOptionItsOwnGroup ==
    RanThrough =>
        /\ GatingOfTheRest
        /\ Called("setup_scripts_symlink") <=> ~mopts.skip_dotfiles
        /\ Called("setup_windows_configs") <=> ~mopts.skip_windows
        /\ Called("setup_gpg") <=> mopts.gpg_email # None

\* C13 amended: as stated, except that the scripts symlink is called iff
\* --skip-dotfiles is absent and the preset is dev or full, the Windows
\* configuration iff both --skip-dotfiles and --skip-windows are absent, and
\* GPG setup iff --generate-gpg-key was given a non-empty address.
C13_OptionsGateSteps ==
    RanThrough =>
        /\ GatingOfTheRest
        /\ Called("setup_scripts_symlink") <=> (~mopts.skip_dotfiles /\ DevOrFull)
        /\ Called("setup_windows_configs")
              <=> (~mopts.skip_dotfiles /\ ~mopts.skip_windows)
        /\ Called("setup_gpg")
              <=> (mopts.gpg_email # None /\ mopts.gpg_email # Some(<<>>))

\* an invocation with --skip-dotfiles and without --skip-windows ran through
C13_Witness ==
    /\ RanThrough
    /\ mopts.skip_dotfiles
    /\ ~mopts.skip_windows
    /\ ~mopts.skip_packages
    /\ mopts.preset = "minimal"

\* the place of a step in the order C18 gives (the dotfiles steps are one
\* entry of that order)
OrderRank(step) ==
    CASE step = "install_packages" -> 1
      [] step = "install_uv_tools" -> 2
      [] step = "install_npm_tools" -> 3
      [] step = "install_claude_code" -> 4
      [] step = "install_scc" -> 5
      [] step = "install_fira_code" -> 6
      [] step = "install_quarto" -> 7
      [] step = "create_repos_structure" -> 8
      [] step \in {"clone_dotfiles", "stow_dotfiles", "rebuild_bat_cache",
                   "setup_scripts_symlink"} -> 9
      [] step = "setup_windows_configs" -> 10
      [] step = "setup_ssh" -> 11
      [] step = "setup_gpg" -> 12
      [] step = "setup_vim" -> 13
      [] step = "setup_ipython_math_profile" -> 14
      [] step = "setup_locale" -> 15
      [] step = "setup_shell" -> 16

\* some step of the invocation raised
SomeStepRaised == \E i \in DOMAIN mlog : ~mlog[i].returned

\* C18: the steps of an invocation are called in the one fixed order and none
\* twice; once a step has raised no later step is called, "Setup complete" is
\* not logged and the process ends with status 1 (the exception re-raised
\* when verbose); "Setup complete" is logged only when every enabled step was
\* called and returned.
C18_FixedOrderStopAtFailure ==
    /\ \A i, j \in DOMAIN mlog :
          i < j => /\ OrderRank(mlog[i].step) <= OrderRank(mlog[j].step)
                   /\ mlog[i].step # mlog[j].step
    /\ \A i \in DOMAIN mlog : ~mlog[i].returned =>
          /\ i = Len(mlog)
          /\ ~mcomplete
          /\ mpc = "done"
          /\ mexit = IF mopts.verbose THEN "raised" ELSE "1"
    /\ mcomplete =>
          /\ ~SomeStepRaised
          /\ \A i \in DOMAIN StepOrder :
                Runs(StepOrder[i], mopts) => Called(StepOrder[i])

\* a step raised after earlier steps had returned, without --verbose, while
\* later steps were still enabled
C18_Witness ==
    /\ mpc = "done"
    /\ Len(mlog) >= 3
    /\ ~mlog[Len(mlog)].returned
    /\ ~mopts.verbose
    /\ mlog[Len(mlog)].step = "clone_dotfiles"
    /\ ~mopts.skip_vim

(***************************************************************************)
(* secrets.py: generate_ssh_key on its own.                                *)
(***************************************************************************)

\* one call of generate_ssh_key(); ssh-keygen is on the PATH or not and
\* exits with returncode
GenerateSshKeyCall(keygen, returncode) ==
    /\ cpc = "idle"
    /\ (sshPriv = 0 /\ sshPub = 0) => nextKey <= MaxFreshKeys
    /\ LET g == GenerateSshKey(sshPriv, sshPub, keygen, returncode, nextKey)
       IN  /\ sshPriv' = g.priv
           /\ sshPub' = g.pub
           /\ nextKey' = IF g.fresh THEN nextKey + 1 ELSE nextKey
           /\ Finish([cmd |-> "generate_ssh_key", privBefore |-> sshPriv,
                      pubBefore |-> sshPub, keygen |-> keygen,
                      returncode |-> returncode, ret |-> g.ret, cmds |-> g.cmds])
    /\ UNCHANGED <<clock, gpgRing, ghSsh, ghGpg, nextId, regFile, notWorld>>

\* between calls the user removes the private key file
RemovePrivateKey ==
    /\ cpc = "idle"
    /\ sshPriv # 0
    /\ sshPriv' = 0
    /\ UNCHANGED <<clock, sshPub, gpgRing, ghSsh, ghGpg, nextKey, nextId, cpc, crun,
                   clast, regFile, notWorld>>

\* between calls the user removes the public key file
RemovePublicKey ==
    /\ cpc = "idle"
    /\ sshPub # 0
    /\ sshPub' = 0
    /\ UNCHANGED <<clock, sshPriv, gpgRing, ghSsh, ghGpg, nextKey, nextId, cpc, crun,
                   clast, regFile, notWorld>>

SshKeyNext ==
    \/ \E keygen \in BOOLEAN, rc \in {0, 1} : GenerateSshKeyCall(keygen, rc)
    \/ RemovePrivateKey
    \/ RemovePublicKey
    \/ Tick
    \/ Return

InitSshKey ==
    /\ AppIdle
    /\ UploadInit
    /\ regFile = NoFile(FALSE)
    /\ InstInit
    /\ WorldIdle

SpecSshKey == InitSshKey /\ [][SshKeyNext]_vars

\* a call of generate_ssh_key has just ended
SshKeyCallEnded == cpc = "done" /\ clast.cmd = "generate_ssh_key"

\* what C14 says whatever the state of ssh-keygen: a key is generated only
\* when neither file exists, a lone public key is never touched, and an
\* existing private key keeps its content
NeverOverwrites ==
    /\ (\E n \in DOMAIN clast.cmds : clast.cmds[n] = GENERATE_KEY)
          => (clast.privBefore = 0 /\ clast.pubBefore = 0)
    /\ (clast.privBefore = 0 /\ clast.pubBefore # 0)
          => (~clast.ret /\ sshPriv = 0 /\ sshPub = clast.pubBefore
              /\ clast.cmds = <<>>)
    /\ clast.privBefore # 0 => sshPriv = clast.privBefore

WindowsUsers == {"Alice", "Bob"}

MaxPinCalls == 4

\* a slip: the sentinel is never written
SentinelsAfterWrite_Never(sentinels, username, written) == sentinels

\* sentinel.parent.mkdir(...); sentinel.write_text(...) under
\* `except OSError`: the sentinel exists afterwards unless the write failed
SentinelsAfterWrite(sentinels, username, written) ==
    IF written THEN sentinels \cup {username} ELSE sentinels

\* pin_taskbar_apps_once(username): pin_taskbar_apps would return `pinned`,
\* the Windows-side state directory can be written or not
PinTaskbarAppsOnce(username, pinned, written) ==
    /\ Len(taskbarLog) < MaxPinCalls
    /\ IF username \in taskbarSentinels
       THEN /\ taskbarLog' = Append(taskbarLog,
                                [username |-> username, invoked |-> FALSE,
                                 pinned |-> FALSE, writable |-> written,
                                 sentinel |-> TRUE])
            /\ UNCHANGED taskbarSentinels
       ELSE /\ taskbarSentinels' =
                   SentinelsAfterWrite(taskbarSentinels, username, written)
            /\ taskbarLog' = Append(taskbarLog,
                                [username |-> username, invoked |-> TRUE,
                                 pinned |-> pinned, writable |-> written,
                                 sentinel |-> username \in taskbarSentinels'])
    /\ UNCHANGED <<cfgVars, mainVars, hostVars, notApp>>

TaskbarNext ==
    \E username \in WindowsUsers, pinned \in BOOLEAN, written \in BOOLEAN :
        PinTaskbarAppsOnce(username, pinned, written)

InitTaskbar ==
    /\ AppIdle
    /\ UploadInit
    /\ regFile = NoFile(FALSE)
    /\ InstInit
    /\ WorldIdle

SpecTaskbar == InitTaskbar /\ [][TaskbarNext]_vars

\* the places in the log of the calls for one user
CallsFor(username) == {i \in DOMAIN taskbarLog : taskbarLog[i].username = username}

\* the calls for one user that invoked pin_taskbar_apps
InvokedFor(username) == {i \in CallsFor(username) : taskbarLog[i].invoked}

\* C15 as stated: for each Windows user pin_taskbar_apps was invoked at most
\* once; the user's first call invoked it and left the sentinel recorded
\* whether or not pinning succeeded; no later call invoked it.
C15_PinnedAtMostOnce ==
    \A u \in WindowsUsers :
        /\ Cardinality(InvokedFor(u)) <= 1
        /\ \A i \in CallsFor(u) :
              IF \A j \in CallsFor(u) : i <= j
              THEN taskbarLog[i].invoked /\ taskbarLog[i].sentinel
              ELSE ~taskbarLog[i].invoked

\* C15 amended: a call invokes pin_taskbar_apps iff no earlier call for the
\* same user left the sentinel recorded; the sentinel is recorded by an
\* invoking call whether or not pinning succeeded, unless writing it failed;
\* so the user's first call invokes it, and it is invoked at most once after
\* the first call whose sentinel write succeeded.
C15_PinnedOncePerSentinel ==
    \A u \in WindowsUsers :
        /\ \A i \in CallsFor(u) :
              taskbarLog[i].invoked <=>
                  ~\E j \in CallsFor(u) : j < i /\ taskbarLog[j].sentinel
        /\ \A i \in InvokedFor(u) : taskbarLog[i].sentinel <=> taskbarLog[i].writable
        /\ Cardinality({i \in InvokedFor(u) : taskbarLog[i].sentinel}) <= 1
        /\ u \in taskbarSentinels <=> \E i \in CallsFor(u) : taskbarLog[i].sentinel

\* pinning failed on the first call for a user, the sentinel was recorded,
\* and two later calls for that user did not invoke pin_taskbar_apps
C15_Witness ==
    /\ Len(taskbarLog) >= 3
    /\ taskbarLog[1].username = "Alice"
    /\ taskbarLog[1].invoked
    /\ ~taskbarLog[1].pinned
    /\ taskbarLog[1].sentinel
    /\ Cardinality(CallsFor("Alice")) >= 3
    /\ Cardinality(InvokedFor("Alice")) = 1

(***************************************************************************)
(* secrets.py: generate_gpg_key on its own.                                *)
(***************************************************************************)

\* keyrings found before the call: empty, holding a key this tool made
\* earlier on the first day or on the next, holding somebody's key under
\* another name
OlderKeyrings ==
    { <<>>,
      << [fpr |-> GpgFingerprint(8), name |-> GenerateKeyName(0), key |-> 8] >>,
      << [fpr |-> GpgFingerprint(7), name |-> GenerateKeyName(DayLen), key |-> 7] >>,
      << [fpr |-> GpgFingerprint(9), name |-> <<"Jane", "Doe">>, key |-> 9] >> }

\* one call of generate_gpg_key(email)
GenerateGpgKeyCall(gpg, genCode, listCode) ==
    /\ cpc = "idle"
    /\ nextKey <= MaxFreshKeys
    /\ LET g == GenerateGpgKey(gpgRing, gpg, genCode, listCode, nextKey, clock)
       IN  /\ gpgRing' = g.ring
           /\ nextKey' = IF g.fresh THEN nextKey + 1 ELSE nextKey
           /\ Finish([cmd |-> "generate_gpg_key", ringBefore |-> gpgRing,
                      generated |-> IF g.fresh THEN nextKey ELSE 0,
                      result |-> g.result])
    /\ UNCHANGED <<clock, sshPriv, sshPub, ghSsh, ghGpg, nextId, regFile, notWorld>>

GpgKeyNext ==
    \/ \E gpg \in BOOLEAN, genCode \in {0, 2}, listCode \in {0, 2} :
          GenerateGpgKeyCall(gpg, genCode, listCode)
    \/ Tick
    \/ Return

InitGpgKey ==
    /\ AppIdle
    /\ UploadInit
    /\ regFile = NoFile(FALSE)
    /\ InstInit
    /\ clock = 0
    /\ sshPriv = 0
    /\ sshPub = 0
    /\ gpgRing \in OlderKeyrings
    /\ ghSsh = <<>>
    /\ ghGpg = <<>>
    /\ nextKey = 1
    /\ nextId = 1
    /\ cpc = "idle"
    /\ crun = NoRun
    /\ clast = NoRun

SpecGpgKey == InitGpgKey /\ [][GpgKeyNext]_vars

\* C21: when generate_gpg_key has returned a result, its fingerprint is that
\* of the key the call generated, whatever the keyring held before.
C21_FingerprintOfGeneratedKey ==
    (cpc = "done" /\ clast.cmd = "generate_gpg_key" /\ clast.result # None) =>
        /\ clast.generated # 0
        /\ clast.result[1].fingerprint = GpgFingerprint(clast.generated)

(***************************************************************************)
(* installers.py: install_quarto and install_fira_code, their temporary    *)
(* files.                                                                  *)
(***************************************************************************)

MaxInstalls == 2

\* where install_quarto ends: quarto already there, the release metadata not
\* fetched, the architecture unsupported, no .deb asset, the download failed
\* (URLError or a status other than 200), dpkg -i failed, or nowhere
QuartoStops ==
    {"installed", "metadata", "architecture", "asset", "download", "dpkg", "none"}

\* where install_fira_code ends
FiraCodeStops ==
    {"no_windows_user", "installed", "metadata", "asset", "download", "bad_archive",
     "no_ttf_dir", "no_ttf_files", "copy", "none"}

\* the stops before NamedTemporaryFile is reached
BeforeTempFile == {"no_windows_user", "installed", "metadata", "architecture", "asset"}

\* install_quarto: the temporary files it created, those whose path it
\* kept in deb_path, and whether it raised
InstallQuartoTemp(stop) ==
    IF stop \in BeforeTempFile
    THEN [created |-> {}, known |-> {}, raised |-> stop # "installed"]
    ELSE IF stop = "download"
    THEN [created |-> {"deb"}, known |-> {}, raised |-> TRUE]
    ELSE [created |-> {"deb"}, known |-> {"deb"}, raised |-> stop = "dpkg"]

\* install_fira_code: the same, with zip_path and extract_dir
InstallFiraCodeTemp(stop) ==
    IF stop \in BeforeTempFile
    THEN [created |-> {}, known |-> {},
          raised |-> stop \notin {"installed", "no_windows_user"}]
    ELSE IF stop = "download"
    THEN [created |-> {"zip"}, known |-> {}, raised |-> TRUE]
    ELSE [created |-> {"zip", "dir"}, known |-> {"zip", "dir"},
          raised |-> stop # "none"]

\* the finally clause: os.remove / shutil.rmtree of each path kept, an
\* OSError only logged
LeftBehind(created, known, removable) ==
    IF removable THEN created \ known ELSE created

\* one call of fn; the temporary files of the n-th call are <<n, kind>>
InstallFromRelease(fn, stop, removable) ==
    /\ Len(trace) < MaxInstalls
    /\ stop \in IF fn = "install_quarto" THEN QuartoStops ELSE FiraCodeStops
    /\ LET n == Len(trace) + 1
           t == IF fn = "install_quarto" THEN InstallQuartoTemp(stop)
                ELSE InstallFiraCodeTemp(stop)
           left == LeftBehind(t.created, t.known, removable)
       IN  /\ host' = [host EXCEPT !.tmp = @ \cup {<<n, kind>> : kind \in left}]
           /\ trace' = Append(trace, [fn |-> fn, stop |-> stop,
                                      removable |-> removable,
                                      created |-> {<<n, kind>> : kind \in t.created},
                                      raised |-> t.raised])
    /\ UNCHANGED notHost

InstallNext ==
    \E fn \in {"install_quarto", "install_fira_code"},
       stop \in QuartoStops \cup FiraCodeStops, removable \in BOOLEAN :
        InstallFromRelease(fn, stop, removable)

InitInstall ==
    /\ CfgIdle
    /\ MainIdle
    /\ TaskbarIdle
    /\ host = [step |-> "install", tmp |-> {}]
    /\ trace = <<>>
    /\ UploadInit
    /\ regFile = NoFile(FALSE)
    /\ InstInit
    /\ WorldIdle

SpecInstall == InitInstall /\ [][InstallNext]_vars

\* C23: no temporary file or directory that a call of install_quarto or
\* install_fira_code created exists once the call has returned or raised, on
\* the paths C23 lists (the removal itself succeeding).
C23_NoTemporaryLeft ==
    \A n \in DOMAIN trace :
        trace[n].removable => trace[n].created \cap host.tmp = {}

(***************************************************************************)
(* dotfiles.py: remove_default_dotfiles.                                   *)
(***************************************************************************)

\* default_dotfiles
DefaultDotfiles == {".bashrc", ".profile", ".bash_logout", ".gitconfig"}

\* the backup names of a dotfile at one timestamp: suffix 0 is
\* '<name>.bak.<timestamp>', suffix k is '<name>.bak.<timestamp>.<k>'
MaxSuffix == 2
Suffixes == 0 .. MaxSuffix

Absent == [kind |-> "absent", content |-> <<>>]

\* what a name of the home directory may be before the call
HomeEntries(name) ==
    { Absent,
      [kind |-> "file", content |-> <<"skel", name>>],
      [kind |-> "symlink", content |-> <<"dotfiles", name>>],
      [kind |-> "dir", content |-> <<>>] }

\* the backups already there: none, the first name taken, the first two
BackupsTaken == {{}, {0}, {0, 1}}

OlderBackup(name, k) == [kind |-> "file", content |-> <<"older", name, k>>]

\* a slip: the first backup name is used whether or not it is free
FreeSuffix_First(backups, suffix) == suffix

\* `while backup_path.exists(): suffix += 1`
RECURSIVE FreeSuffix(_, _)
FreeSuffix(backups, suffix) ==
    IF backups[suffix].kind = "absent" THEN suffix
    ELSE FreeSuffix(backups, suffix + 1)

\* the loop body for one dotfile: is_symlink -> continue; is_file -> move
MovesToBackup(entry) == entry.kind = "file"

\* remove_default_dotfiles(home)
RemoveDefaultDotfiles ==
    /\ trace = <<>>
    /\ host' = [host EXCEPT
                  !.home = [d \in DefaultDotfiles |->
                               IF MovesToBackup(host.home[d]) THEN Absent
                               ELSE host.home[d]],
                  !.backups = [d \in DefaultDotfiles |->
                                  IF MovesToBackup(host.home[d])
                                  THEN [host.backups[d] EXCEPT
                                          ![FreeSuffix(host.backups[d], 0)] =
                                              host.home[d]]
                                  ELSE host.backups[d]]]
    /\ trace' = <<[fn |-> "remove_default_dotfiles", before |-> host]>>
    /\ UNCHANGED notHost

BackupNext == RemoveDefaultDotfiles

\* the home directory before stow_dotfiles: .bashrc and .gitconfig may be
\* anything, the other two are skeleton files or already symlinks
InitBackup ==
    /\ CfgIdle
    /\ MainIdle
    /\ TaskbarIdle
    /\ \E bashrc \in HomeEntries(".bashrc"), gitconfig \in HomeEntries(".gitconfig"),
          linked \in SUBSET {".profile", ".bash_logout"},
          t1 \in BackupsTaken, t2 \in BackupsTaken :
          host = [step |-> "dotfiles",
                  home |-> [d \in DefaultDotfiles |->
                              IF d = ".bashrc" THEN bashrc
                              ELSE IF d = ".gitconfig" THEN gitconfig
                              ELSE IF d \in linked
                              THEN [kind |-> "symlink", content |-> <<"dotfiles", d>>]
                              ELSE [kind |-> "file", content |-> <<"skel", d>>]],
                  backups |-> [d \in DefaultDotfiles |->
                                 [k \in Suffixes |->
                                    IF k \in (IF d = ".bashrc" THEN t1 ELSE t2)
                                    THEN OlderBackup(d, k) ELSE Absent]]]
    /\ trace = <<>>
    /\ UploadInit
    /\ regFile = NoFile(FALSE)
    /\ InstInit
    /\ WorldIdle

SpecBackup == InitBackup /\ [][BackupNext]_vars

\* the call has returned
JustBackedUp == trace # <<>>

Branches == {"main", "work"}

\* a command of the call: what was run, the branch it names, its exit code
Command(run, branch, returncode) ==
    [run |-> run, branch |-> branch, returncode |-> returncode]

\* ensure_github_auth(repo_url): the commands it runs and whether it raises
\* (gh auth login is run with check=True)
EnsureGithubAuth(github, gh, statusCode, loginCode) ==
    LET called == <<Command("ensure_github_auth", "", 0)>>
        status == Command("gh auth status", "", statusCode)
        login == Command("gh auth login", "", loginCode)
        setup == Command("gh auth setup-git", "", 0)
    IN  IF ~github \/ ~gh THEN [cmds |-> called, raised |-> FALSE]
        ELSE IF statusCode = 0
        THEN [cmds |-> called \o <<status, setup>>, raised |-> FALSE]
        ELSE IF loginCode # 0
        THEN [cmds |-> called \o <<status, login>>, raised |-> TRUE]
        ELSE [cmds |-> called \o <<status, login, setup>>, raised |-> FALSE]

\* a slip: the pull is run whatever the checkout did
UpdateExisting_IgnoringCheckout(branch, checkoutCode, pullCode) ==
    [cmds |-> <<Command("git checkout", branch, checkoutCode),
                Command("git pull --ff-only", "", pullCode)>>,
     raised |-> FALSE]

\* clone_dotfiles when the directory exists: checkout (check=True), then
\* pull --ff-only (check=False)
UpdateExisting(branch, checkoutCode, pullCode) ==
    IF checkoutCode # 0
    THEN [cmds |-> <<Command("git checkout", branch, checkoutCode)>>,
          raised |-> TRUE]
    ELSE [cmds |-> <<Command("git checkout", branch, checkoutCode),
                     Command("git pull --ff-only", "", pullCode)>>,
          raised |-> FALSE]

\* clone_dotfiles(config): `in` holds the configuration and what each
\* command will answer
CloneDotfilesCommands(exists, in) ==
    LET remote == IF exists
                  THEN <<Command("git remote get-url", "", in.remoteCode)>>
                  ELSE <<>>
        github == IF exists /\ in.remoteCode = 0 THEN in.originGithub
                  ELSE in.repoGithub
        auth == EnsureGithubAuth(github, in.gh, in.statusCode, in.loginCode)
        update == UpdateExisting(in.branch, in.checkoutCode, in.pullCode)
        clone == <<Command("git clone", in.branch, in.cloneCode)>>
    IN  IF auth.raised
        THEN [cmds |-> remote \o auth.cmds, raised |-> TRUE, exists |-> exists]
        ELSE IF exists
        THEN [cmds |-> remote \o auth.cmds \o update.cmds, raised |-> update.raised,
              exists |-> TRUE]
        ELSE [cmds |-> auth.cmds \o clone, raised |-> in.cloneCode # 0,
              exists |-> in.cloneCode = 0]

\* the configuration and the answers of the commands; a command that
\* cannot be reached (login after a good status, pull after a failed
\* checkout) answers 0
CloneInputs ==
    { in \in [branch : Branches, repoGithub : BOOLEAN, originGithub : BOOLEAN,
              gh : BOOLEAN, remoteCode : {0, 1}, statusCode : {0, 1},
              loginCode : {0, 1}, checkoutCode : {0, 1}, pullCode : {0, 1},
              cloneCode : {0, 128}] :
        /\ in.statusCode = 0 => in.loginCode = 0
        /\ in.checkoutCode # 0 => in.pullCode = 0 }

\* one call of clone_dotfiles; the trace keeps the last call
CloneDotfiles(in) ==
    /\ host.step = "clone"
    /\ LET c == CloneDotfilesCommands(host.exists, in)
       IN  /\ host' = [host EXCEPT !.exists = c.exists]
           /\ trace' = <<[fn |-> "clone_dotfiles", in |-> in, branch |-> in.branch,
                           existed |-> host.exists, cmds |-> c.cmds,
                           raised |-> c.raised]>>
    /\ UNCHANGED notHost

CloneNext == \E in \in CloneInputs : CloneDotfiles(in)

InitClone ==
    /\ CfgIdle
    /\ MainIdle
    /\ TaskbarIdle
    /\ host \in {[step |-> "clone", exists |-> e] : e \in BOOLEAN}
    /\ trace = <<>>
    /\ UploadInit
    /\ regFile = NoFile(FALSE)
    /\ InstInit
    /\ WorldIdle

SpecClone == InitClone /\ [][CloneNext]_vars

\* the places of a command in a call's commands
RunAt(call, run) == {i \in DOMAIN call.cmds : call.cmds[i].run = run}

GitWrites == {"git checkout", "git pull --ff-only", "git clone"}

\* the checkouts, pulls and clones of the call, in order
AfterAuthStep(call) ==
    LET gits == {i \in DOMAIN call.cmds : call.cmds[i].run \in GitWrites}
    IN  [n \in 1 .. Cardinality(gits) |->
            call.cmds[CHOOSE i \in gits :
                         Cardinality({j \in gits : j < i}) = n - 1]]

\* C25: in every call of clone_dotfiles, checkout, pull and clone come only
\* after the authentication step; with the directory there, no clone is run,
\* and unless the authentication step raised the requested branch is checked
\* out and then, if the checkout succeeded, pulled, a failed pull not making
\* the call raise and a failed checkout making it raise; with the directory
\* absent the only git command is the clone of the requested branch.
C25_CloneOnlyIfAbsent ==
    \A n \in DOMAIN trace :
        LET call == trace[n]
            auth == RunAt(call, "ensure_github_auth")
            done == AfterAuthStep(call)
            loginFailed == \E i \in RunAt(call, "gh auth login") :
                              call.cmds[i].returncode # 0
        IN  /\ Cardinality(auth) = 1
            /\ \A i \in DOMAIN call.cmds :
                  call.cmds[i].run \in GitWrites => \A a \in auth : a < i
            /\ loginFailed => (done = <<>> /\ call.raised)
            /\ (call.existed /\ ~loginFailed) =>
                  /\ done # <<>>
                  /\ done[1] = Command("git checkout", call.branch, done[1].returncode)
                  /\ IF done[1].returncode # 0
                     THEN Len(done) = 1 /\ call.raised
                     ELSE /\ Len(done) = 2
                          /\ done[2].run = "git pull --ff-only"
                          /\ ~call.raised
            /\ (~call.existed /\ ~loginFailed) =>
                  /\ Len(done) = 1
                  /\ done[1] = Command("git clone", call.branch, done[1].returncode)

\* a call found the directory, logged in, checked the branch out, failed to
\* pull and returned
C25_Witness ==
    /\ trace # <<>>
    /\ trace[1].existed
    /\ ~trace[1].raised
    /\ RunAt(trace[1], "gh auth login") # {}
    /\ \E i \in RunAt(trace[1], "git pull --ff-only") : trace[1].cmds[i].returncode # 0

(***************************************************************************)
(* installers.py / packages.py: install_packages.  dpkg-query prints the   *)
(* status of a package as three words; the host records the status of a    *)
(* few packages, every other package of the presets is installed.          *)
(***************************************************************************)
INSTALLED == <<"install", " ", "ok", " ", "installed">>
CONFIG_FILES == <<"deinstall", " ", "ok", " ", "config-files">>
UNKNOWN_PACKAGE == <<>>

DpkgStatuses == {INSTALLED, CONFIG_FILES, UNKNOWN_PACKAGE}

DpkgPool == {"zsh", "gcc", "msmtp", "msmtp-mta", "tree"}

\* stdout of dpkg-query -W -f=${Status} <package>
DpkgQuery(dpkg, package) ==
    IF package \in DOMAIN dpkg THEN dpkg[package] ELSE INSTALLED

\* a slip: every package of the preset counts as missing
IsPackageInstalled_Never(dpkg, package) == FALSE

\* is_package_installed(package)
IsPackageInstalled(dpkg, package) ==
    Contains(DpkgQuery(dpkg, package), INSTALLED)

\* to_install = [package for package in packages if not is_package_installed(package)]
ToInstall(dpkg, packages) ==
    SelectSeq(packages, LAMBDA package : ~IsPackageInstalled(dpkg, package))

AptCommand(run, args, returncode) ==
    [run |-> run, args |-> args, returncode |-> returncode]

\* the commands after the first one that fails are not run: run() and
\* subprocess.run(check=True) raise CalledProcessError
RECURSIVE UntilFailure(_, _)
UntilFailure(planned, failing) ==
    IF planned = <<>> THEN <<>>
    ELSE IF Head(planned).run = failing
         THEN <<[Head(planned) EXCEPT !.returncode = 1]>>
         ELSE <<Head(planned)>> \o UntilFailure(Tail(planned), failing)

AptSteps == {"apt-get update", "apt-get upgrade", "debconf-set-selections",
             "apt-get install"}

\* install_packages(config): the commands it runs, in order, when the
\* command `failing` (if it is reached) exits non-zero
InstallPackagesCommands(dpkg, packages, failing) ==
    LET to_install == ToInstall(dpkg, packages)
        preseed == IF \E i \in DOMAIN to_install :
                          to_install[i] \in {"msmtp", "msmtp-mta"}
                   THEN <<AptCommand("debconf-set-selections", <<>>, 0)>>
                   ELSE <<>>
        planned == <<AptCommand("apt-get update", <<>>, 0),
                     AptCommand("apt-get upgrade", <<>>, 0)>>
                   \o preseed
                   \o <<AptCommand("apt-get install", to_install, 0)>>
    IN  IF to_install = <<>> THEN <<>> ELSE UntilFailure(planned, failing)

Raises(cmds) == cmds # <<>> /\ cmds[Len(cmds)].returncode # 0

\* the packages apt-get install has installed
DpkgAfter(dpkg, cmds) ==
    IF cmds = <<>> \/ Raises(cmds) THEN dpkg
    ELSE [p \in DOMAIN dpkg |->
            IF p \in Elements(cmds[Len(cmds)].args) THEN INSTALLED ELSE dpkg[p]]

InstallPackages(preset, failing) ==
    /\ host.step = "packages"
    /\ LET packages == Cumulative(ModuleLists, "PACKAGES_MINIMAL", "PACKAGES_DEV",
                                  "PACKAGES_FULL", preset)
           cmds == InstallPackagesCommands(host.dpkg, packages, failing)
       IN  /\ host' = [host EXCEPT !.dpkg = DpkgAfter(host.dpkg, cmds)]
           /\ trace' = <<[fn |-> "install_packages", packages |-> packages,
                           dpkg |-> host.dpkg, cmds |-> cmds,
                           raised |-> Raises(cmds)]>>
    /\ UNCHANGED notHost

PackagesNext ==
    \E preset \in Presets, failing \in AptSteps \cup {"none"} :
        InstallPackages(preset, failing)

InitPackages ==
    /\ CfgIdle
    /\ MainIdle
    /\ TaskbarIdle
    /\ host \in {[step |-> "packages", dpkg |-> d] : d \in [DpkgPool -> DpkgStatuses]}
    /\ trace = <<>>
    /\ UploadInit
    /\ regFile = NoFile(FALSE)
    /\ InstInit
    /\ WorldIdle

SpecPackages == InitPackages /\ [][PackagesNext]_vars

\* the position of a package in a list without repetitions
IndexIn(list, x) == CHOOSE i \in DOMAIN list : list[i] = x

\* dpkg reports the package as installed
ReportedInstalled(dpkg, package) ==
    package \notin DOMAIN dpkg \/ dpkg[package] = INSTALLED

MissingOf(call) ==
    {p \in Elements(call.packages) : ~ReportedInstalled(call.dpkg, p)}

RunsOf(cmds) == [i \in DOMAIN cmds |-> cmds[i].run]

IsPrefix(s, t) == Len(s) <= Len(t) /\ SubSeq(t, 1, Len(s)) = s

\* the order of the apt commands when the given packages are missing
AptOrder(missing) ==
    <<"apt-get update", "apt-get upgrade">>
        \o (IF missing \cap {"msmtp", "msmtp-mta"} # {}
            THEN <<"debconf-set-selections">> ELSE <<>>)
        \o <<"apt-get install">>

MaxTools == 3

ToolNames == {"ruff", "mypy"}

ToolLists == UNION {[1..n -> ToolNames] : n \in 0..MaxTools}

\* a slip: the loop ends at the first install that exits non-zero
RECURSIVE InstallEach_StopAtFailure(_, _, _)
InstallEach_StopAtFailure(prefix, tools, codes) ==
    IF tools = <<>> THEN <<>>
    ELSE <<[cmd |-> prefix \o <<Head(tools)>>, returncode |-> Head(codes)]>>
         \o (IF Head(codes) # 0 THEN <<>>
             ELSE InstallEach_StopAtFailure(prefix, Tail(tools), Tail(codes)))

\* for tool in tools: run([...prefix, tool], check=False)
RECURSIVE InstallEach(_, _, _)
InstallEach(prefix, tools, codes) ==
    IF tools = <<>> THEN <<>>
    ELSE <<[cmd |-> prefix \o <<Head(tools)>>, returncode |-> Head(codes)]>>
         \o InstallEach(prefix, Tail(tools), Tail(codes))

\* the warnings of the loop, one per failed install
Warnings(cmds) ==
    SelectSeq(cmds, LAMBDA c : c.returncode # 0)

\* the body shared by the two installers: what is looked up, run and raised
InstallTools(present, prefix, tools, codes) ==
    IF tools = <<>>
    THEN [checked |-> FALSE, cmds |-> <<>>, warned |-> 0, raised |-> FALSE]
    ELSE IF ~present
    THEN [checked |-> TRUE, cmds |-> <<>>, warned |-> 1, raised |-> FALSE]
    ELSE LET cmds == InstallEach(prefix, tools, codes)
         IN  [checked |-> TRUE, cmds |-> cmds, warned |-> Len(Warnings(cmds)),
              raised |-> FALSE]

\* sudo_prefix()
SudoPrefix(root) == IF root THEN <<>> ELSE <<"sudo">>

\* install_uv_tools(tools)
InstallUvTools(tools, codes) ==
    /\ host.step = "tools"
    /\ trace = <<>>
    /\ trace' = <<[fn |-> "install_uv_tools", tools |-> tools, present |-> host.uv,
                    codes |-> codes]
                   @@ InstallTools(host.uv, <<"uv", "tool", "install">>, tools, codes)>>
    /\ UNCHANGED <<host, notHost>>

\* install_npm_tools(tools)
InstallNpmTools(tools, codes) ==
    /\ host.step = "tools"
    /\ trace = <<>>
    /\ trace' = <<[fn |-> "install_npm_tools", tools |-> tools, present |-> host.npm,
                    codes |-> codes]
                   @@ InstallTools(host.npm,
                                   SudoPrefix(host.root) \o <<"npm", "install", "-g">>,
                                   tools, codes)>>
    /\ UNCHANGED <<host, notHost>>

ToolsNext ==
    \E tools \in ToolLists :
        \E codes \in [DOMAIN tools -> {0, 1}] :
            \/ InstallUvTools(tools, codes)
            \/ InstallNpmTools(tools, codes)

InitTools ==
    /\ CfgIdle
    /\ MainIdle
    /\ TaskbarIdle
    /\ host \in {[step |-> "tools", uv |-> u, npm |-> n, root |-> r] :
                    u \in BOOLEAN, n \in BOOLEAN, r \in BOOLEAN}
    /\ trace = <<>>
    /\ UploadInit
    /\ regFile = NoFile(FALSE)
    /\ InstInit
    /\ WorldIdle

SpecTools == InitTools /\ [][ToolsNext]_vars

\* C27: install_uv_tools and install_npm_tools never raise on a non-zero
\* exit; with the installer present they run one install command per listed
\* tool, in list order, whatever the exit codes; with an empty list they run
\* nothing and do not look the installer up; with the installer missing they
\* run nothing.
C27_OneInstallPerTool ==
    \A i \in DOMAIN trace :
        LET call == trace[i] IN
        /\ ~call.raised
        /\ call.tools = <<>> => call.cmds = <<>> /\ ~call.checked
        /\ ~call.present => call.cmds = <<>>
        /\ call.tools # <<>> /\ call.present =>
             /\ Len(call.cmds) = Len(call.tools)
             /\ \A k \in DOMAIN call.tools :
                  /\ call.cmds[k].cmd[Len(call.cmds[k].cmd)] = call.tools[k]
                  /\ call.cmds[k].returncode = call.codes[k]

\* the first of several installs failed and the later ones were still run
C27_Witness ==
    \E i \in DOMAIN trace :
        /\ Len(trace[i].tools) >= 2
        /\ trace[i].present
        /\ trace[i].codes[1] # 0
        /\ Len(trace[i].cmds) = Len(trace[i].tools)

(***************************************************************************)
(* windows.py: get_windows_username.  Names are sequences of characters,   *)
(* compared as Python compares strings: by code point, left to right.      *)
(***************************************************************************)
MaxEntries == 3

CodePoint(c) ==
    CASE c = " " -> 32
      [] c = "." -> 46
      [] c = "/" -> 47
      [] c = "A" -> 65
      [] c = "D" -> 68
      [] c = "P" -> 80
      [] c = "U" -> 85
      [] c = "Z" -> 90
      [] c = "\\" -> 92
      [] c = "a" -> 97
      [] c = "b" -> 98
      [] c = "c" -> 99
      [] c = "d" -> 100
      [] c = "e" -> 101
      [] c = "f" -> 102
      [] c = "i" -> 105
      [] c = "l" -> 108
      [] c = "m" -> 109
      [] c = "o" -> 111
      [] c = "r" -> 114
      [] c = "s" -> 115
      [] c = "t" -> 116
      [] c = "u" -> 117
      [] c = "y" -> 121

PUBLIC == <<"P", "u", "b", "l", "i", "c">>
DEFAULT == <<"D", "e", "f", "a", "u", "l", "t">>
DEFAULT_USER == <<"D", "e", "f", "a", "u", "l", "t", " ", "U", "s", "e", "r">>
ALL_USERS == <<"A", "l", "l", " ", "U", "s", "e", "r", "s">>
AMY == <<"a", "m", "y">>
BOB == <<"b", "o", "b">>
ZOE == <<"Z", "o", "e">>
DOTTED == <<"a", ".", ".", "b">>
BACKSLASHED == <<"c", "\\", "d">>

\* skip = {"Public", "Default", "Default User", "All Users"}
WindowsSkip == {PUBLIC, DEFAULT, DEFAULT_USER, ALL_USERS}

\* the names /mnt/c/Users may hold
EntryNames == {PUBLIC, AMY, BOB, ZOE, DOTTED, BACKSLASHED}

\* an entry is a user directory with AppData, a directory without it, or a
\* regular file
EntryKinds == {"user", "bare", "file"}

UsersDirs ==
    UNION {[S -> EntryKinds] :
             S \in {T \in SUBSET EntryNames : Cardinality(T) <= MaxEntries}}

\* os.environ.get("USER"): unset, empty or a name
UserEnvs == {{}, {<<>>}, {BOB}, {ZOE}, {DOTTED}}

\* str < str
RECURSIVE NameLess(_, _)
NameLess(a, b) ==
    IF b = <<>> THEN FALSE
    ELSE IF a = <<>> THEN TRUE
    ELSE IF Head(a) # Head(b) THEN CodePoint(Head(a)) < CodePoint(Head(b))
    ELSE NameLess(Tail(a), Tail(b))

RECURSIVE InsertByName(_, _)
InsertByName(sorted, entry) ==
    IF sorted = <<>> THEN <<entry>>
    ELSE IF NameLess(entry.name, Head(sorted).name)
         THEN <<entry>> \o sorted
         ELSE <<Head(sorted)>> \o InsertByName(Tail(sorted), entry)

\* a slip: the entries are taken in the order the directory gives them
SortedByName_AsIterated(entries) == entries

\* sorted(users_path.iterdir(), key=lambda path: path.name)
RECURSIVE SortedByName(_)
SortedByName(entries) ==
    IF entries = <<>> THEN <<>>
    ELSE InsertByName(SortedByName(SubSeq(entries, 1, Len(entries) - 1)),
                      entries[Len(entries)])

\* user_dir.is_dir() and user_dir.name not in skip and (user_dir / "AppData").exists()
IsValidUserDir(entry) ==
    /\ entry.kind # "file"
    /\ entry.name \notin WindowsSkip
    /\ entry.kind = "user"

\* ".." in username or "/" in username or "\\" in username
IsTraversal(username) ==
    \/ Contains(username, <<".", ".">>)
    \/ Contains(username, <<"/">>)
    \/ Contains(username, <<"\\">>)

\* the loop of get_windows_username over the sorted entries
RECURSIVE ScanUsers(_, _, _)
ScanUsers(entries, current_user, fallback_username) ==
    IF entries = <<>> THEN fallback_username
    ELSE LET user_dir == Head(entries)
             username == user_dir.name
         IN  IF ~IsValidUserDir(user_dir) \/ IsTraversal(username)
             THEN ScanUsers(Tail(entries), current_user, fallback_username)
             ELSE IF current_user # {} /\ current_user # {<<>>}
                     /\ username \in current_user
             THEN username
             ELSE ScanUsers(Tail(entries), current_user,
                            IF fallback_username = None THEN username
                            ELSE fallback_username)

\* get_windows_username() when iterdir() gives the entries in `order`
WindowsUsername(exists, dir, order, current_user) ==
    IF ~exists THEN None
    ELSE ScanUsers(SortedByName([i \in DOMAIN order |->
                                   [name |-> order[i], kind |-> dir[order[i]]]]),
                   current_user, None)

\* the orders in which iterdir() may give the entries of the directory
IterationOrders(dir) ==
    {order \in [1..Cardinality(DOMAIN dir) -> DOMAIN dir] :
        \A i, j \in DOMAIN order : i # j => order[i] # order[j]}

GetWindowsUsername(order) ==
    /\ host.step = "windows"
    /\ trace = <<>>
    /\ trace' = <<[fn |-> "get_windows_username", order |-> order,
                    result |-> WindowsUsername(host.exists, host.dir, order,
                                               host.USER)]>>
    /\ UNCHANGED <<host, notHost>>

WindowsNext == \E order \in IterationOrders(host.dir) : GetWindowsUsername(order)

InitWindows ==
    /\ CfgIdle
    /\ MainIdle
    /\ TaskbarIdle
    /\ host \in {[step |-> "windows", exists |-> TRUE, dir |-> d, USER |-> u] :
                    d \in UsersDirs, u \in UserEnvs}
               \cup {[step |-> "windows", exists |-> FALSE, dir |-> <<>>, USER |-> u] :
                       u \in UserEnvs}
    /\ trace = <<>>
    /\ UploadInit
    /\ regFile = NoFile(FALSE)
    /\ InstInit
    /\ WorldIdle

SpecWindows == InitWindows /\ [][WindowsNext]_vars

\* the valid user directories of the claim
ValidUsers ==
    {n \in DOMAIN host.dir :
        /\ host.dir[n] = "user"
        /\ n \notin {PUBLIC, DEFAULT, DEFAULT_USER, ALL_USERS}
        /\ ~Contains(n, <<".", ".">>)
        /\ ~Contains(n, <<"/">>)
        /\ ~Contains(n, <<"\\">>)}

\* C28: get_windows_username returns the valid directory named as $USER when
\* there is one, otherwise the smallest valid name whatever order the
\* directory is iterated in, and None exactly when /mnt/c/Users is missing
\* or holds no valid directory.
C28_PrefersUserThenSmallest ==
    \A i \in DOMAIN trace :
        LET result == trace[i].result
            valid == IF host.exists THEN ValidUsers ELSE {}
        IN  /\ result = None <=> valid = {}
            /\ valid # {} =>
                 /\ result \in valid
                 /\ host.USER \cap valid # {} => result \in host.USER
                 /\ host.USER \cap valid = {} =>
                      \A n \in valid : n = result \/ NameLess(result, n)

\* the directory gave the larger of two valid names first, $USER names
\* neither, and the function went past entries that are not valid
C28_Witness ==
    \E i \in DOMAIN trace :
        /\ Cardinality(ValidUsers) >= 2
        /\ host.USER \cap ValidUsers = {}
        /\ DOMAIN host.dir # ValidUsers
        /\ \E a, b \in DOMAIN trace[i].order :
             /\ a < b
             /\ {trace[i].order[a], trace[i].order[b]} \subseteq ValidUsers
             /\ NameLess(trace[i].order[b], trace[i].order[a])
        /\ trace[i].result \in ValidUsers

(***************************************************************************)
(* app_setup.py and shell.py: set_default_shell_zsh.  Both modules define  *)
(* the function; paths and the text of /etc/shells are sequences of        *)
(* tokens so that the substring tests of the code are substring tests.     *)
(***************************************************************************)
MaxRuns == 3

BIN_BASH == <<"/bin/", "bash">>
USR_BIN_ZSH == <<"/usr/bin/", "zsh">>

\* /etc/shells without and with the zsh path
ShellsWithoutZsh == <<"/bin/", "sh", "\n", "/bin/", "bash", "\n">>
ShellsWithZsh == ShellsWithoutZsh \o USR_BIN_ZSH \o <<"\n">>

ShellModules == {"app_setup", "shell"}

\* get_current_shell(): app_setup.py reads the passwd entry and falls back to
\* $SHELL on KeyError; shell.py reads $SHELL only
GetCurrentShell(module, entry, pw_shell, SHELL) ==
    IF module = "app_setup" /\ entry THEN pw_shell
    ELSE IF SHELL = None THEN BIN_BASH ELSE SHELL

\* set_default_shell_zsh() of the given module on host h: the commands it
\* runs in order, whether it raises, and the host it leaves
SetDefaultShellZshRun(module, h, appendCode, chshCode) ==
    LET current_shell == GetCurrentShell(module, h.entry, h.pw_shell, h.SHELL)
        which == AptCommand("which zsh", <<>>, IF h.zsh_path = None THEN 1 ELSE 0)
        append == AptCommand("append /etc/shells", h.zsh_path, appendCode)
        chsh == AptCommand("chsh", h.zsh_path, chshCode)
        appends == h.shells # None /\ ~Contains(h.shells, h.zsh_path)
        afterAppend == IF appends /\ appendCode = 0
                       THEN [h EXCEPT !.shells = h.shells \o h.zsh_path \o <<"\n">>]
                       ELSE h
        before == <<which>> \o (IF appends THEN <<append>> ELSE <<>>)
    IN  IF Contains(current_shell, <<"zsh">>)
        THEN [cmds |-> <<>>, raised |-> FALSE, host |-> h]
        ELSE IF h.zsh_path = None
        THEN [cmds |-> <<which>>, raised |-> FALSE, host |-> h]
        ELSE IF appends /\ appendCode # 0
        THEN [cmds |-> before, raised |-> TRUE, host |-> h]
        ELSE IF module = "app_setup" /\ ~h.entry
        THEN [cmds |-> before, raised |-> TRUE, host |-> afterAppend]
        ELSE [cmds |-> before \o <<chsh>>, raised |-> chshCode # 0,
              host |-> IF chshCode = 0
                       THEN [afterAppend EXCEPT !.pw_shell = h.zsh_path]
                       ELSE afterAppend]

SetDefaultShellZsh(module, appendCode, chshCode) ==
    /\ host.step = "shell"
    /\ Len(trace) < MaxRuns
    /\ LET r == SetDefaultShellZshRun(module, host, appendCode, chshCode)
       IN  /\ host' = r.host
           /\ trace' = Append(trace, [fn |-> "set_default_shell_zsh",
                                      module |-> module, login |-> host.pw_shell,
                                      entry |-> host.entry,
                                      zsh_path |-> host.zsh_path,
                                      shells |-> host.shells,
                                      cmds |-> r.cmds, raised |-> r.raised])
    /\ UNCHANGED notHost

ShellNext ==
    \E module \in ShellModules, appendCode \in {0, 1}, chshCode \in {0, 1} :
        SetDefaultShellZsh(module, appendCode, chshCode)

InitShell ==
    /\ CfgIdle
    /\ MainIdle
    /\ TaskbarIdle
    /\ host \in {[step |-> "shell", entry |-> e, pw_shell |-> p, SHELL |-> s,
                  zsh_path |-> z, shells |-> f] :
                    e \in BOOLEAN, p \in {BIN_BASH, USR_BIN_ZSH},
                    s \in {None, BIN_BASH, USR_BIN_ZSH},
                    z \in {None, USR_BIN_ZSH},
                    f \in {None, ShellsWithoutZsh, ShellsWithZsh}}
    /\ trace = <<>>
    /\ UploadInit
    /\ regFile = NoFile(FALSE)
    /\ InstInit
    /\ WorldIdle

SpecShell == InitShell /\ [][ShellNext]_vars

Issued(call, run) == \E k \in DOMAIN call.cmds : call.cmds[k].run = run

Succeeded(call, run) ==
    \E k \in DOMAIN call.cmds :
        call.cmds[k].run = run /\ call.cmds[k].returncode = 0

\* C29: a run of set_default_shell_zsh that finds 'zsh' in the user's login
\* shell runs no command; the run after a run whose chsh succeeded issues
\* neither the /etc/shells append nor chsh; the append is issued only when
\* /etc/shells exists and does not contain the zsh path, and succeeds at most
\* once over the runs; chsh is never issued when zsh is not found.
C29_SecondRunDoesNothing ==
    /\ \A i \in DOMAIN trace :
         /\ trace[i].entry /\ Contains(trace[i].login, <<"zsh">>)
              => trace[i].cmds = <<>>
         /\ Issued(trace[i], "append /etc/shells")
              => trace[i].shells # None
                 /\ ~Contains(trace[i].shells, trace[i].zsh_path)
         /\ trace[i].zsh_path = None => ~Issued(trace[i], "chsh")
    /\ \A i \in DOMAIN trace :
         i > 1 /\ Succeeded(trace[i - 1], "chsh")
           => ~Issued(trace[i], "append /etc/shells") /\ ~Issued(trace[i], "chsh")
    /\ Cardinality({i \in DOMAIN trace : Succeeded(trace[i], "append /etc/shells")}) <= 1

(***************************************************************************)
(* app_setup.py / ipython_setup.py: setup_ipython_math_profile.  The host  *)
(* holds ~/.local/share/ipython-math, its pyproject.toml, ~/.local/bin and *)
(* the ipython-math wrapper; a file is a record of its text and mode.      *)
(***************************************************************************)
NoEntry == [text |-> "", mode |-> 0]

TextFile(text, mode) == [text |-> text, mode |-> mode]

\* pyproject.toml may be missing, as this program writes it, or edited
PyprojectFiles ==
    {NoEntry, TextFile("PYPROJECT_TOML", 420), TextFile("edited by the user", 420)}

\* the wrapper may be missing, as this program writes it, no longer
\* executable, or an older one
WrapperFiles ==
    {NoEntry, TextFile("WRAPPER_SCRIPT", 493), TextFile("WRAPPER_SCRIPT", 420),
     TextFile("older wrapper", 420)}

\* if not pyproject_path.exists(): pyproject_path.write_text(PYPROJECT_TOML)
PyprojectAfter(pyproject) ==
    IF pyproject = NoEntry THEN TextFile("PYPROJECT_TOML", 420) ELSE pyproject

\* a slip: the wrapper is written whatever uv sync returned
WrapperAfter_Always(returncode, wrapper) == TextFile("WRAPPER_SCRIPT", 493)

\* the early return on a failed uv sync, then write_text(WRAPPER_SCRIPT) and
\* chmod(0o755)
WrapperAfter(returncode, wrapper) ==
    IF returncode # 0 THEN wrapper ELSE TextFile("WRAPPER_SCRIPT", 493)

\* setup_ipython_math_profile() on host h when uv sync returns returncode
SetupIpythonMathProfileRun(h, returncode) ==
    IF ~h.uv THEN [host |-> h, cmds |-> <<>>]
    ELSE LET wrapper == WrapperAfter(returncode, h.wrapper)
         IN  [host |-> [h EXCEPT !.dir = TRUE,
                                 !.pyproject = PyprojectAfter(h.pyproject),
                                 !.bin = h.bin \/ returncode = 0,
                                 !.wrapper = wrapper],
              cmds |-> <<AptCommand("uv sync", <<>>, returncode)>>]

SetupIpythonMathProfile(returncode) ==
    /\ host.step = "ipython"
    /\ LET r == SetupIpythonMathProfileRun(host, returncode)
       IN  /\ host' = r.host
           /\ trace' = <<[fn |-> "setup_ipython_math_profile", before |-> host,
                           cmds |-> r.cmds]>>
    /\ UNCHANGED notHost

IpythonNext == \E returncode \in {0, 1, 2} : SetupIpythonMathProfile(returncode)

InitIpython ==
    /\ CfgIdle
    /\ MainIdle
    /\ TaskbarIdle
    /\ host \in {h \in [step : {"ipython"}, uv : BOOLEAN, dir : BOOLEAN,
                        pyproject : PyprojectFiles, bin : BOOLEAN,
                        wrapper : WrapperFiles] :
                    /\ h.pyproject # NoEntry => h.dir
                    /\ h.wrapper # NoEntry => h.bin}
    /\ trace = <<>>
    /\ UploadInit
    /\ regFile = NoFile(FALSE)
    /\ InstInit
    /\ WorldIdle

SpecIpython == InitIpython /\ [][IpythonNext]_vars

SyncSucceeded(call) == call.cmds # <<>> /\ call.cmds[1].returncode = 0

\* C30: setup_ipython_math_profile leaves an existing pyproject.toml as it
\* was; the wrapper script changes or appears only in a call whose uv sync
\* succeeded; without uv nothing is created and nothing is run; after a
\* failed uv sync a missing wrapper is still missing.
C30_WrapperOnlyAfterSync ==
    \A i \in DOMAIN trace :
        LET call == trace[i]
            before == call.before
        IN  /\ before.pyproject # NoEntry => host.pyproject = before.pyproject
            /\ host.wrapper # before.wrapper => SyncSucceeded(call)
            /\ ~before.uv => host = before /\ call.cmds = <<>>
            /\ before.uv /\ ~SyncSucceeded(call) /\ before.wrapper = NoEntry
                 => host.wrapper = NoEntry

\* uv sync failed in a directory that had an edited pyproject.toml and no
\* wrapper
C30_Witness ==
    \E i \in DOMAIN trace :
        /\ trace[i].before.uv
        /\ trace[i].before.pyproject = TextFile("edited by the user", 420)
        /\ trace[i].before.wrapper = NoEntry
        /\ trace[i].cmds # <<>>
        /\ trace[i].cmds[1].returncode # 0

InitUpload ==
    /\ AppIdle
    /\ UploadInit
    /\ regFile = NoFile(FALSE)
    /\ InstInit
    /\ WorldIdle

SpecUpload == InitUpload /\ [][UploadNext]_vars

(***************************************************************************)
(* Properties of the upload functions.                                     *)
(***************************************************************************)
UploadsAt == {i \in DOMAIN ulog : ulog[i].cmd = "upload"}
RefreshesAt == {i \in DOMAIN ulog : ulog[i].cmd = "refresh"}

\* the combined output of an upload holds the marker, whatever its case
OutputHas(entry, marker) ==
    Contains(Lower(entry.result.stdout \o entry.result.stderr), marker)

FailedUpload(entry) == entry.cmd = "upload" /\ entry.returncode # 0

FailedWith404(entry) ==
    /\ FailedUpload(entry)
    /\ OutputHas(entry, HTTP_404) \/ OutputHas(entry, STATUS_404)
    /\ ~OutputHas(entry, ALREADY)

FirstUploadAt == CHOOSE i \in UploadsAt : \A j \in UploadsAt : i <= j
LastUploadAt == CHOOSE i \in UploadsAt : \A j \in UploadsAt : j <= i

\* C1: one call issues at most two uploads and at most one refresh; a second
\* upload is issued only after a successful refresh that followed the first
\* upload; and a call whose first upload failed with a 404 marker (and no
\* 'already') has, when it returns, run the refresh exactly once and repeated
\* the upload exactly once if the refresh succeeded and not at all otherwise.
C1_RefreshOnceRetryOnce ==
    /\ Cardinality(UploadsAt) <= 2
    /\ Cardinality(RefreshesAt) <= 1
    /\ \A i \in UploadsAt :
          i # FirstUploadAt =>
              \E k \in RefreshesAt :
                  FirstUploadAt < k /\ k < i /\ ulog[k].returncode = 0
    /\ (upc = "done" /\ UploadsAt # {} /\ FailedWith404(ulog[FirstUploadAt])) =>
          /\ Cardinality(RefreshesAt) = 1
          /\ \A k \in RefreshesAt :
                /\ k = FirstUploadAt + 1
                /\ ulog[k].returncode = 0 =>
                      Cardinality(UploadsAt) = 2 /\ LastUploadAt = k + 1
                /\ ulog[k].returncode # 0 => Cardinality(UploadsAt) = 1

\* a call returned after a 404 failure, a successful refresh and a second upload
C1_Witness ==
    /\ upc = "done"
    /\ Cardinality(UploadsAt) = 2
    /\ FailedWith404(ulog[FirstUploadAt])
    /\ \E k \in RefreshesAt : ulog[k].returncode = 0

\* C2: a failed upload (first or repeated) whose combined output holds
\* 'already' in any case ends the call at once with True, no command after
\* it; and a call that issued an upload returns False exactly when its last
\* upload failed without 'already'.
C2_DuplicateIsSuccess ==
    /\ \A i \in UploadsAt :
          (FailedUpload(ulog[i]) /\ OutputHas(ulog[i], ALREADY)) =>
              i = Len(ulog) /\ upc = "done" /\ uret = "True"
    /\ (upc = "done" /\ UploadsAt # {}) =>
          (uret = "False" <=>
              /\ FailedUpload(ulog[LastUploadAt])
              /\ ~OutputHas(ulog[LastUploadAt], ALREADY))

\* a call returned True on a repeated upload that failed as a duplicate
C2_Witness ==
    /\ upc = "done"
    /\ uret = "True"
    /\ Cardinality(UploadsAt) = 2
    /\ FailedUpload(ulog[LastUploadAt])
    /\ OutputHas(ulog[LastUploadAt], ALREADY)

\* the places in the log of the commands of one kind
CommandsAt(cmd) == {i \in DOMAIN ulog : ulog[i].cmd = cmd}

\* C22: an upload command is issued only after `gh auth status` succeeded
\* or, after it failed, `gh auth login` with the function's scope succeeded;
\* and once the login has failed the call has returned False with no upload
\* and no refresh issued.
C22_AuthenticatesBeforeUpload ==
    /\ \A i \in CommandsAt("upload") :
          \/ \E j \in CommandsAt("auth_status") : j < i /\ ulog[j].returncode = 0
          \/ \E j \in CommandsAt("auth_status"), k \in CommandsAt("auth_login") :
                /\ j < k /\ k < i
                /\ ulog[j].returncode # 0
                /\ ulog[k].returncode = 0
                /\ ulog[k].scopes = Scopes(ufn)
    /\ \A k \in CommandsAt("auth_login") :
          ulog[k].returncode # 0 =>
              /\ upc = "done"
              /\ uret = "False"
              /\ k = Len(ulog)
              /\ CommandsAt("upload") = {}
              /\ CommandsAt("refresh") = {}

\* add_gpg_key_to_github uploaded after a failed status check and a
\* successful login
C22_Witness ==
    /\ ufn = "gpg"
    /\ CommandsAt("upload") # {}
    /\ \E j \in CommandsAt("auth_status") : ulog[j].returncode # 0
    /\ \E k \in CommandsAt("auth_login") :
          ulog[k].returncode = 0 /\ ulog[k].scopes = "admin:gpg_key"

====
